---- MODULE Spec2Model ----
(***************************************************************************)
(* State-machine model of the RAG query service: the expiring cache        *)
(* (utils/cache.py), the rate limiter (utils/rate_limit.py), the metrics   *)
(* tracker (utils/response_quality.py), the query orchestrator            *)
(* (services/rag_service.py) and the endpoint that calls it                *)
(* (api/v1/endpoints/query.py).                                            *)
(*                                                                         *)
(* Time is the value of time.time() in whole seconds.  Python's None and   *)
(* an argument that is left out are two sentinel strings; an Optional      *)
(* value that is not a string is a sequence of length 0 (None) or 1.       *)
(***************************************************************************)
EXTENDS Integers, Sequences, FiniteSets, TLC

VARIABLES
    clock,        \* time.time()
    ticks,        \* number of clock advances so far (bounds the exploration)
    cache,        \* SimpleCache.cache: fingerprint -> [value, expiry]
    cache_call,   \* the last call made on the cache API and what it returned
    requests_per_minute,  \* RateLimiter.requests_per_minute
    requests,     \* RateLimiter.requests: identity -> list of timestamps
    limiter_call, \* the last is_allowed call and what it returned
    history,      \* every is_allowed call so far: identity -> list of [at, allowed]
    response_quality_metrics, \* the ResponseQualityMetrics object
    embed_client, \* which embedding client RAGService.__init__ has set up
    uuids,        \* number of uuid.uuid4() values drawn so far
    query_call,   \* the last query_documentation call and what it returned
    served,       \* history: request -> the last response computed and cached for it
    logged,       \* history: the log_query_end calls since the last reset_metrics
    lock,         \* RateLimiter.lock: the thread that holds it, or "free"
    threads,      \* per thread: where it is in the call it runs, and its locals
    thread_log,   \* history: the cache calls of the threads, in the order they took effect
    validation,   \* a validate_response_accuracy call: its arguments and its report
    snapshot,     \* the dict a caller of get_metrics holds, if one was taken
    endpoint_call, \* the last POST /query and what the caller got
    plain         \* a second cache, given the same calls except cleanup_expired

cacheVars == <<cache, cache_call>>
limiterVars == <<requests_per_minute, requests, limiter_call, history>>
ragVars == <<response_quality_metrics, embed_client, uuids, query_call, served, logged>>
threadVars == <<lock, threads, thread_log>>
outerVars == <<validation, snapshot, endpoint_call, plain>>
vars == <<clock, ticks, cacheVars, limiterVars, ragVars, threadVars, outerVars>>

-----------------------------------------------------------------------------
(* Bounds of the exploration *)

MaxTicks == 2
MaxEntries == 2
MaxLimit == 2
MaxCalls == 4
MaxQueries == 2
MaxLogs == 3
MaxOps == 3
MaxPosts == 2

(* Program constants *)

default_ttl == 3600
OneSecondTtl == 1
rate_limit_per_minute == 10
Window == 60
ResponseTtl == 7200
SearchLimit == 5
SnippetLimit == 500
MaxQueryLength == 2000
MaxSelectedTextLength == 5000

-----------------------------------------------------------------------------
(* Python values *)

PyNone == "<None>"
Omitted == "<omitted>"

\* An Optional result: None is the empty sequence, a value v is <<v>>.
Absent == << >>
Some(v) == <<v>>

\* dict.get(name, dflt)
Field(dict, name, dflt) == IF name \in DOMAIN dict THEN dict[name] ELSE dflt

\* whether text.strip() is non-empty (rag_service.py line 179,
\* response_quality.py line 78, the endpoint's line 28)
HasContent(answer) ==
    /\ answer # ""
    /\ \E i \in 1..Len(answer) : SubSeq(answer, i, i) # " "

\* str(x) as an f-string renders it: None is rendered as the text "None".
Str(x) == IF x = PyNone THEN "None" ELSE x

\* A parameter with a default: the default applies only when it is left out.
Param(arg, dflt) == IF arg = Omitted THEN dflt ELSE arg

\* hashlib.md5(text).hexdigest(): a digest, modelled as injective on the
\* texts of the model (no two of them collide under md5).
Md5Hex(text) == "md5:" \o text

-----------------------------------------------------------------------------
(* utils/cache.py *)

_generate_key(query, selected_text) ==
    Md5Hex(query \o "::" \o Str(Param(selected_text, "")))

_generate_key_NormNone(query, selected_text) ==
    Md5Hex(query \o "::" \o (IF selected_text \in {PyNone, Omitted} THEN "" ELSE selected_text))

Expired(item, now) == now > item.expiry

Remove(c, keys) == [k \in (DOMAIN c) \ keys |-> c[k]]

Put(c, key, item) == [k \in (DOMAIN c) \cup {key} |-> IF k = key THEN item ELSE c[k]]

\* get: [cache |-> the map after the call, found |-> the value returned]
get_KeepsExpired(c, query, selected_text, now) ==
    LET key == _generate_key(query, selected_text) IN
    IF key \in DOMAIN c
    THEN [cache |-> c, found |-> Some(c[key].value)]
    ELSE [cache |-> c, found |-> Absent]

get_NoEvict(c, query, selected_text, now) ==
    LET key == _generate_key(query, selected_text) IN
    IF key \in DOMAIN c
    THEN IF Expired(c[key], now)
         THEN [cache |-> c, found |-> Absent]
         ELSE [cache |-> c, found |-> Some(c[key].value)]
    ELSE [cache |-> c, found |-> Absent]

get(c, query, selected_text, now) ==
    LET key == _generate_key(query, selected_text) IN
    IF key \in DOMAIN c
    THEN IF Expired(c[key], now)
         THEN [cache |-> Remove(c, {key}), found |-> Absent]
         ELSE [cache |-> c, found |-> Some(c[key].value)]
    ELSE [cache |-> c, found |-> Absent]

\* The ttl a set() call uses: the default when the argument is None.
EffectiveTtl(ttl) == IF ttl = Absent THEN default_ttl ELSE ttl[1]

set_KeepsFirst(c, query, value, selected_text, ttl, now) ==
    LET key == _generate_key(query, selected_text) IN
    IF key \in DOMAIN c /\ ~Expired(c[key], now)
    THEN c
    ELSE Put(c, key, [value |-> value, expiry |-> now + EffectiveTtl(ttl)])

set(c, query, value, selected_text, ttl, now) ==
    Put(c, _generate_key(query, selected_text),
        [value |-> value, expiry |-> now + EffectiveTtl(ttl)])

\* delete: [cache |-> the map after the call, deleted |-> the value returned]
delete(c, query, selected_text) ==
    LET key == _generate_key(query, selected_text) IN
    IF key \in DOMAIN c
    THEN [cache |-> Remove(c, {key}), deleted |-> TRUE]
    ELSE [cache |-> c, deleted |-> FALSE]

clear(c) == Remove(c, DOMAIN c)

\* cleanup_expired: [cache |-> the map after the call, removed |-> the count]
cleanup_expired_FirstOnly(c, now) ==
    LET expired_keys == {k \in DOMAIN c : Expired(c[k], now)}
        first == IF expired_keys = {} THEN {} ELSE {CHOOSE k \in expired_keys : TRUE}
        after == Remove(c, first)
    IN  [cache |-> after,
         removed |-> Cardinality(DOMAIN c) - Cardinality(DOMAIN after)]

cleanup_expired_SweepsLive(c, now) ==
    [cache |-> << >>, removed |-> Cardinality(DOMAIN c)]

cleanup_expired(c, now) ==
    LET expired_keys == {k \in DOMAIN c : Expired(c[k], now)}
        after == Remove(c, expired_keys)
    IN  [cache |-> after,
         removed |-> Cardinality(DOMAIN c) - Cardinality(DOMAIN after)]

size(c) == Cardinality(DOMAIN c)

-----------------------------------------------------------------------------
(* utils/rate_limit.py *)

Prune_KeepsBoundary(stamps, current_time) ==
    LET InWindow(timestamp) == current_time - timestamp <= Window
    IN  SelectSeq(stamps, InWindow)

\* The timestamps of the window: those less than 60 seconds old.
Prune(stamps, current_time) ==
    LET InWindow(timestamp) == current_time - timestamp < Window
    IN  SelectSeq(stamps, InWindow)

\* is_allowed: [stamps |-> the identity's list after the call, allowed |-> the result]
is_allowed_OffByOne(stamps, limit, current_time) ==
    LET kept == Prune(stamps, current_time) IN
    IF Len(kept) <= limit
    THEN [stamps |-> Append(kept, current_time), allowed |-> TRUE]
    ELSE [stamps |-> kept, allowed |-> FALSE]

is_allowed_RecordsDenied(stamps, limit, current_time) ==
    LET kept == Prune(stamps, current_time) IN
    [stamps |-> Append(kept, current_time), allowed |-> Len(kept) < limit]

is_allowed_CountsUnpruned(stamps, limit, current_time) ==
    LET kept == Prune(stamps, current_time) IN
    IF Len(stamps) < limit
    THEN [stamps |-> Append(kept, current_time), allowed |-> TRUE]
    ELSE [stamps |-> kept, allowed |-> FALSE]

is_allowed(stamps, limit, current_time) ==
    LET kept == Prune(stamps, current_time) IN
    IF Len(kept) < limit
    THEN [stamps |-> Append(kept, current_time), allowed |-> TRUE]
    ELSE [stamps |-> kept, allowed |-> FALSE]

Identities == {"key1", "key2"}

Limits == 1..MaxLimit

RateTickSteps == {1, Window - 1}

NoLimiterCall == [op |-> "none", id |-> "", allowed |-> FALSE]

\* The execution contexts that run calls at the same time
Threads == {"t1", "t2"}

\* a thread that is not inside a call
Idle == [pc |-> "idle"]

-----------------------------------------------------------------------------
(* models/query.py: what pydantic accepts *)

StartsWith(s, prefix) == Len(s) >= Len(prefix) /\ SubSeq(s, 1, Len(prefix)) = prefix

Take(s, n) == SubSeq(s, 1, IF Len(s) < n THEN Len(s) ELSE n)

\* Citation.url: pattern ^https?://.+$|^/.*$
UrlPattern(url) ==
    \/ StartsWith(url, "http://") /\ Len(url) > 7
    \/ StartsWith(url, "https://") /\ Len(url) > 8
    \/ StartsWith(url, "/")

\* Citation(...): a relevance score is a number of hundredths.
CitationValid(c) ==
    /\ UrlPattern(c.url)
    /\ Len(c.text_snippet) >= 10 /\ Len(c.text_snippet) <= 1000
    /\ c.relevance_score >= 0 /\ c.relevance_score <= 100

\* A response payload as the cache holds it (QueryResponse.model_dump()).
Payload(answer, citations, query_id, timestamp, metadata) ==
    [answer |-> answer, citations |-> citations, query_id |-> query_id,
     timestamp |-> timestamp, metadata |-> metadata]

\* QueryResponse(...)
ResponseValid(r) ==
    /\ Len(r.answer) >= 1 /\ Len(r.answer) <= 10000
    /\ Len(r.citations) <= 20
    /\ \A i \in 1..Len(r.citations) : CitationValid(r.citations[i])

-----------------------------------------------------------------------------
(* utils/response_quality.py *)

\* ResponseQualityMetrics.__init__; an average is an exact fraction
ZeroMetrics ==
    [metrics |->
        [total_queries |-> 0, successful_queries |-> 0, failed_queries |-> 0,
         avg_response_time |-> [num |-> 0, den |-> 1], total_response_time |-> 0,
         avg_citations_per_response |-> [num |-> 0, den |-> 1], total_citations |-> 0],
     response_times |-> << >>]

\* a / b, and 0 when there is nothing to divide by
Average(total, count) ==
    IF count > 0 THEN [num |-> total, den |-> count] ELSE [num |-> 0, den |-> 1]

\* lines 41-49
UpdateAverages(m) ==
    [m EXCEPT
        !.avg_response_time = Average(m.total_response_time, m.successful_queries),
        !.avg_citations_per_response = Average(m.total_citations, m.successful_queries)]

\* log_query_end(start_time, success, response), called at end_time; of the
\* response only the number of citations is read, and response is Absent when
\* the argument is left out.
Citations(response) == IF response # Absent THEN response[1] ELSE 0

log_query_end_CountsFailure(self, start_time, end_time, success, response) ==
    [metrics |->
        UpdateAverages(
            [self.metrics EXCEPT
                !.total_queries = @ + 1,
                !.total_response_time = @ + (end_time - start_time),
                !.failed_queries = @ + 1]),
     response_times |-> Append(self.response_times, end_time - start_time)]

log_query_end_CitesOnFailure(self, start_time, end_time, success, response) ==
    [metrics |->
        UpdateAverages(
            [self.metrics EXCEPT
                !.total_queries = @ + 1,
                !.total_response_time = @ + (end_time - start_time),
                !.successful_queries = IF success THEN @ + 1 ELSE @,
                !.total_citations = @ + Citations(response),
                !.failed_queries = IF success THEN @ ELSE @ + 1]),
     response_times |-> Append(self.response_times, end_time - start_time)]

log_query_end_SumsOnly(self, start_time, end_time, success, response) ==
    [metrics |->
        [self.metrics EXCEPT
            !.total_queries = @ + 1,
            !.total_response_time = @ + (end_time - start_time),
            !.successful_queries = IF success THEN @ + 1 ELSE @,
            !.total_citations = IF success THEN @ + Citations(response) ELSE @,
            !.failed_queries = IF success THEN @ ELSE @ + 1],
     response_times |-> Append(self.response_times, end_time - start_time)]

log_query_end(self, start_time, end_time, success, response) ==
    [metrics |->
        UpdateAverages(
            [self.metrics EXCEPT
                !.total_queries = @ + 1,
                !.total_response_time = @ + (end_time - start_time),
                !.successful_queries = IF success THEN @ + 1 ELSE @,
                !.total_citations = IF success THEN @ + Citations(response) ELSE @,
                !.failed_queries = IF success THEN @ ELSE @ + 1]),
     response_times |-> Append(self.response_times, end_time - start_time)]

\* dict.copy(): a new dict with the same items.  A dict a caller holds is
\* [shared, fields]: shared tells whether it is the very object self.metrics
\* refers to, so that a write through one is seen through the other.
DictCopy_Alias(d) == [shared |-> TRUE, fields |-> d]

DictCopy(d) == [shared |-> FALSE, fields |-> d]

get_metrics(self) == DictCopy(self.metrics)

\* what a held dict shows after self.metrics[k] was updated in place to m
Follow(held, m) ==
    IF held # Absent /\ held[1].shared
    THEN Some([held[1] EXCEPT !.fields = m])
    ELSE held

\* what a held dict is after self.metrics was bound to a new dict
Unshare(held) ==
    IF held # Absent THEN Some([held[1] EXCEPT !.shared = FALSE]) ELSE held

reset_metrics_KeepsTimes(self) ==
    [ZeroMetrics EXCEPT !.metrics.total_response_time = self.metrics.total_response_time]

reset_metrics(self) == ZeroMetrics

\* one log_query_end call, as the history keeps it
Logged(elapsed, success, response) ==
    [elapsed |-> elapsed, success |-> success, response |-> response]

\* validate_response_accuracy(response, source_context): of the response the
\* answer and the citations' document_id are read; a source document is a dict
\* that may lack "document_id".  Confidence is a number of hundredths.
Report(is_accurate, confidence_score, sources_used, validation_notes) ==
    [is_accurate |-> is_accurate, confidence_score |-> confidence_score,
     citations_validated |-> TRUE, sources_used |-> sources_used,
     validation_notes |-> validation_notes]

\* line 66
CitedSources(response) ==
    {response.citations[i].document_id : i \in 1..Len(response.citations)}

\* line 67: doc.get("document_id") of the documents for which it is truthy
AvailableSources(source_context) ==
    {Field(source_context[i], "document_id", PyNone) : i \in 1..Len(source_context)}
        \ {PyNone, ""}

\* lines 77-81
BlankAnswerRule(response, report) ==
    IF response.citations # << >> /\ ~HasContent(response.answer)
    THEN Report(FALSE, 0, report.sources_used,
                Append(report.validation_notes, "Response has citations but no content"))
    ELSE report

\* lines 64-75
MembershipRule(response, source_context) ==
    LET cited_sources == CitedSources(response)
        available_sources == AvailableSources(source_context)
    IN  IF response.citations # << >> /\ source_context # << >>
        THEN IF cited_sources \subseteq available_sources
             THEN Report(TRUE, 100, cited_sources \cap available_sources, << >>)
             ELSE Report(FALSE, 50, {},
                         <<"Some citations reference sources not in context">>)
        ELSE Report(TRUE, 100, {}, << >>)

validate_response_accuracy_HalvesOnly(response, source_context) ==
    LET report == MembershipRule(response, source_context) IN
    IF response.citations # << >> /\ ~HasContent(response.answer)
    THEN Report(FALSE, IF report.is_accurate THEN 50 ELSE report.confidence_score,
                report.sources_used,
                Append(report.validation_notes, "Response has citations but no content"))
    ELSE report

validate_response_accuracy(response, source_context) ==
    BlankAnswerRule(response, MembershipRule(response, source_context))

\* no POST /query has been made
NoRequest == [n |-> 0, query |-> "", status |-> "none", ran |-> FALSE]

\* no validate_response_accuracy call is under way
NoValidation == [response |-> [answer |-> "", citations |-> << >>],
                 source_context |-> << >>, report |-> Absent]

---------------------------------------------
(* The collaborators of the orchestrator *)

\* RAGService.generate_embedding: what the configured client does is the
\* outcome ("vector", "empty" for an empty embedding, or "raises"); a failing
\* or missing client ends in the mock embedding.
generate_embedding(client, outcome) ==
    IF client \in {"cohere", "openai"} /\ outcome # "raises"
    THEN outcome
    ELSE "mock"

EmbeddingTruthy(embedding) == embedding # "empty"

\* A hit of the vector store: its payload may lack a field.
Hit(id, payload, score) == [id |-> id, payload |-> payload, score |-> score]

\* QdrantService.search_documents: what the client does is the outcome: it
\* raises, or it finds the points of outcome.hits, best first, and returns
\* the first `limit` of them; a failure gives the empty list.
FormatHit(hit) ==
    [document_id |-> hit.id,
     content |-> Field(hit.payload, "content", ""),
     title |-> Field(hit.payload, "title", ""),
     url |-> Field(hit.payload, "url", ""),
     text_snippet |-> Take(Field(hit.payload, "content", ""), SnippetLimit),
     relevance_score |-> hit.score,
     metadata |-> Field(hit.payload, "metadata", {})]

search_documents(outcome, limit) ==
    IF outcome.raises
    THEN << >>
    ELSE LET search_results == Take(outcome.hits, limit) IN
         [i \in 1..Len(search_results) |-> FormatHit(search_results[i])]

ApologyAnswer == "Sorry, I encountered an error while processing your request."

NoDocumentsAnswer == "I couldn't find any relevant documents to answer your question."

\* self.agent_service.generate_response(...): the outcome is the text the
\* provider returns ("text"), a failure inside AgentService.generate_response,
\* which returns the apology instead of raising ("provider_error"), or an
\* exception that reaches the caller ("raises": as imported, agent_service is an
\* AgentServiceManager, on which the attribute lookup itself fails).
generate_response(outcome) ==
    IF outcome.kind = "raises"
    THEN [raised |-> TRUE, answer |-> ""]
    ELSE IF outcome.kind = "provider_error"
         THEN [raised |-> FALSE, answer |-> ApologyAnswer]
         ELSE [raised |-> FALSE, answer |-> outcome.text]

-----------------------------------------------------------------------------
(* services/rag_service.py *)

\* validate_citation_links
validate_citation_links(citations) ==
    LET Ok(citation) ==
            citation.url # "" /\ (StartsWith(citation.url, "http") \/ StartsWith(citation.url, "/"))
    IN  SelectSeq(citations, Ok)

\* enhance_citation_relevance
enhance_citation_relevance_Reranks(citations, query) ==
    [i \in 1..Len(citations) |-> citations[Len(citations) + 1 - i]]

enhance_citation_relevance(citations, query) == citations

\* Citation(...) of one retrieved document
RawCitation(doc) ==
    [document_id |-> Field(doc, "document_id", ""),
     title |-> Field(doc, "title", ""),
     url |-> Field(doc, "url", ""),
     text_snippet |-> Take(Field(doc, "text_snippet", ""), SnippetLimit),
     relevance_score |-> Field(doc, "relevance_score", 0)]

\* the text the embedding is computed for
QueryText(query_request) ==
    IF query_request.selected_text \notin {PyNone, ""}
    THEN query_request.selected_text \o " " \o query_request.query
    ELSE query_request.query

\* "if cached_response:": a stored payload is a dict with five keys
CachedTruthy(found) == found # Absent

\* the hit path writes a new query_id and timestamp into the cached dict
Restamp_KeepsId(payload, query_id, timestamp) ==
    [payload EXCEPT !.timestamp = timestamp]

Restamp(payload, query_id, timestamp) ==
    [payload EXCEPT !.query_id = query_id, !.timestamp = timestamp]

\* "except Exception": every exception of the try block is one
Catches_OnlyValidation(exception) == exception = "ValidationError"

Catches(exception) == TRUE

\* What a run of the try block (lines 98-192) gives: the exception raised, if
\* any, or the response; the cache after it; the collaborators it called; the
\* number of uuids it drew.
Outcome(path, exception, response, c, called, drawn) ==
    [path |-> path, exception |-> exception, response |-> response, cache |-> c,
     called |-> called, drawn |-> drawn]

\* lines 100-109
HitPath(c, key, uuid, end_time) ==
    LET payload == Restamp(c[key].value, uuid + 1, end_time) IN
    IF ResponseValid(payload)
    THEN Outcome("hit", "", Some(payload),
                 [c EXCEPT ![key].value = payload], {}, 1)
    ELSE Outcome("hit", "ValidationError", Absent,
                 [c EXCEPT ![key].value = payload], {}, 1)

\* lines 140-192
GeneratePath_CachesBlank(c, uuid, query_request, docs, gen, end_time) ==
    LET agent_response == generate_response(gen)
        called == {"embed", "search", "generate"}
        raw_citations == [i \in 1..Len(docs) |-> RawCitation(docs[i])]
        validated_citations ==
            validate_citation_links(
                enhance_citation_relevance(raw_citations, query_request.query))
        response ==
            Payload(agent_response.answer, validated_citations, uuid + 1, end_time, {})
    IN  IF agent_response.raised
        THEN Outcome("generate", "ProviderError", Absent, c, called, 0)
        ELSE IF \E i \in 1..Len(raw_citations) : ~CitationValid(raw_citations[i])
        THEN Outcome("generate", "ValidationError", Absent, c, called, 0)
        ELSE IF ~ResponseValid(response)
        THEN Outcome("generate", "ValidationError", Absent, c, called, 1)
        ELSE Outcome("success", "", Some(response),
                     set(c, query_request.query, response,
                         query_request.selected_text, Some(ResponseTtl), end_time),
                     called, 1)

GeneratePath_CachesBeforeValidation(c, uuid, query_request, docs, gen, end_time) ==
    LET agent_response == generate_response(gen)
        called == {"embed", "search", "generate"}
        raw_citations == [i \in 1..Len(docs) |-> RawCitation(docs[i])]
        validated_citations ==
            validate_citation_links(
                enhance_citation_relevance(raw_citations, query_request.query))
        response ==
            Payload(agent_response.answer, validated_citations, uuid + 1, end_time, {})
        draft == Payload(agent_response.answer, << >>, uuid + 1, end_time, {})
        stored == set(c, query_request.query, draft, query_request.selected_text,
                      Some(ResponseTtl), end_time)
    IN  IF agent_response.raised
        THEN Outcome("generate", "ProviderError", Absent, c, called, 0)
        ELSE IF \E i \in 1..Len(raw_citations) : ~CitationValid(raw_citations[i])
        THEN Outcome("generate", "ValidationError", Absent, stored, called, 0)
        ELSE IF ~ResponseValid(response)
        THEN Outcome("generate", "ValidationError", Absent, stored, called, 1)
        ELSE Outcome("success", "", Some(response),
                     IF HasContent(response.answer)
                     THEN set(c, query_request.query, response,
                              query_request.selected_text, Some(ResponseTtl), end_time)
                     ELSE c,
                     called, 1)

GeneratePath(c, uuid, query_request, docs, gen, end_time) ==
    LET agent_response == generate_response(gen)
        called == {"embed", "search", "generate"}
        raw_citations == [i \in 1..Len(docs) |-> RawCitation(docs[i])]
        validated_citations ==
            validate_citation_links(
                enhance_citation_relevance(raw_citations, query_request.query))
        response ==
            Payload(agent_response.answer, validated_citations, uuid + 1, end_time, {})
    IN  IF agent_response.raised
        THEN Outcome("generate", "ProviderError", Absent, c, called, 0)
        ELSE IF \E i \in 1..Len(raw_citations) : ~CitationValid(raw_citations[i])
        THEN Outcome("generate", "ValidationError", Absent, c, called, 0)
        ELSE IF ~ResponseValid(response)
        THEN Outcome("generate", "ValidationError", Absent, c, called, 1)
        ELSE Outcome("success", "", Some(response),
                     IF HasContent(response.answer)
                     THEN set(c, query_request.query, response,
                              query_request.selected_text, Some(ResponseTtl), end_time)
                     ELSE c,
                     called, 1)

\* lines 111-138
MissPath_CachesNoResults(c, client, uuid, query_request, env, end_time) ==
    LET query_embedding == generate_embedding(client, env.embed[1])
        relevant_docs == search_documents(env.search[1], SearchLimit)
        response == Payload(NoDocumentsAnswer, << >>, uuid + 1, end_time, {})
    IN  IF ~EmbeddingTruthy(query_embedding)
        THEN Outcome("embed", "Exception", Absent, c, {"embed"}, 0)
        ELSE IF relevant_docs = << >>
        THEN Outcome("no_results", "", Some(response),
                     set(c, query_request.query, response,
                         query_request.selected_text, Some(ResponseTtl), end_time),
                     {"embed", "search"}, 1)
        ELSE GeneratePath(c, uuid, query_request, relevant_docs, env.gen[1], end_time)

MissPath_SearchEscalates(c, client, uuid, query_request, env, end_time) ==
    LET query_embedding == generate_embedding(client, env.embed[1])
        relevant_docs == search_documents(env.search[1], SearchLimit)
    IN  IF ~EmbeddingTruthy(query_embedding)
        THEN Outcome("embed", "Exception", Absent, c, {"embed"}, 0)
        ELSE IF env.search[1].raises
        THEN Outcome("search", "Exception", Absent, c, {"embed", "search"}, 0)
        ELSE IF relevant_docs = << >>
        THEN Outcome("no_results", "",
                     Some(Payload(NoDocumentsAnswer, << >>, uuid + 1, end_time, {})),
                     c, {"embed", "search"}, 1)
        ELSE GeneratePath(c, uuid, query_request, relevant_docs, env.gen[1], end_time)

MissPath(c, client, uuid, query_request, env, end_time) ==
    LET query_embedding == generate_embedding(client, env.embed[1])
        relevant_docs == search_documents(env.search[1], SearchLimit)
    IN  IF ~EmbeddingTruthy(query_embedding)
        THEN Outcome("embed", "Exception", Absent, c, {"embed"}, 0)
        ELSE IF relevant_docs = << >>
        THEN Outcome("no_results", "",
                     Some(Payload(NoDocumentsAnswer, << >>, uuid + 1, end_time, {})),
                     c, {"embed", "search"}, 1)
        ELSE GeneratePath(c, uuid, query_request, relevant_docs, env.gen[1], end_time)

TryBlock(c, client, uuid, query_request, env, start_time, end_time) ==
    LET probe == get(c, query_request.query, query_request.selected_text, start_time)
        key == _generate_key(query_request.query, query_request.selected_text)
    IN  IF CachedTruthy(probe.found)
        THEN HitPath(probe.cache, key, uuid, end_time)
        ELSE MissPath(probe.cache, client, uuid, query_request, env, end_time)

\* lines 194-206 and the return of the try block: what the caller gets and the
\* state the run leaves, [response, raised, path, called, cache, metrics, logged,
\* uuids]; logged is the log_query_end call it made
Returned_ErrorUnlogged(body, m, uuid, start_time, end_time) ==
    IF body.exception = ""
    THEN [response |-> body.response, raised |-> FALSE, path |-> body.path,
          called |-> body.called, cache |-> body.cache,
          metrics |-> log_query_end(m, start_time, end_time,
                                    body.path # "no_results",
                                    Some(Len(body.response[1].citations))),
          logged |-> Some(Logged(end_time - start_time, body.path # "no_results",
                                 Some(Len(body.response[1].citations)))),
          uuids |-> uuid + body.drawn]
    ELSE [response |-> Some(Payload(ApologyAnswer, << >>, uuid + body.drawn + 1,
                                    end_time, {"error"})),
          raised |-> FALSE, path |-> "error",
          called |-> body.called, cache |-> body.cache,
          metrics |-> m, logged |-> Absent,
          uuids |-> uuid + body.drawn + 1]

Returned(body, m, uuid, start_time, end_time) ==
    IF body.exception = ""
    THEN [response |-> body.response, raised |-> FALSE, path |-> body.path,
          called |-> body.called, cache |-> body.cache,
          metrics |-> log_query_end(m, start_time, end_time,
                                    body.path # "no_results",
                                    Some(Len(body.response[1].citations))),
          logged |-> Some(Logged(end_time - start_time, body.path # "no_results",
                                 Some(Len(body.response[1].citations)))),
          uuids |-> uuid + body.drawn]
    ELSE IF Catches(body.exception)
    THEN [response |-> Some(Payload(ApologyAnswer, << >>, uuid + body.drawn + 1,
                                    end_time, {"error"})),
          raised |-> FALSE, path |-> "error",
          called |-> body.called, cache |-> body.cache,
          metrics |-> log_query_end(m, start_time, end_time, FALSE, Some(0)),
          logged |-> Some(Logged(end_time - start_time, FALSE, Some(0))),
          uuids |-> uuid + body.drawn + 1]
    ELSE [response |-> Absent, raised |-> TRUE, path |-> "raised",
          called |-> body.called, cache |-> body.cache, metrics |-> m,
          logged |-> Absent,
          uuids |-> uuid + body.drawn]

\* query_documentation: the clock reads start_time when it begins and end_time
\* when it ends.
query_documentation(c, m, client, uuid, query_request, env, start_time, end_time) ==
    Returned(TryBlock(c, client, uuid, query_request, env, start_time, end_time),
             m, uuid, start_time, end_time)

-----------------------------------------------------------------------------
(* The inputs of the orchestrator *)

\* QueryRequest: session_id and metadata are not read by the orchestrator.
Request(query, selected_text) == [query |-> query, selected_text |-> selected_text]

Requests == {Request("q", ""), Request("q", PyNone), Request("q", "None")}

HitRos ==
    Hit("doc1", [content |-> "ROS 2 is a flexible framework", title |-> "ROS 2",
                 url |-> "/docs/ros2"], 90)

HitNav ==
    Hit("doc2", [content |-> "Nav2 plans paths for robots", title |-> "Nav2",
                 url |-> "https://x"], 80)

HitFtp ==
    Hit("doc3", [content |-> "An old mirror of the docs", title |-> "Mirror",
                 url |-> "ftp://bad"], 70)

HitNoUrl == Hit("doc4", [content |-> "A page without a link", title |-> "Page"], 60)

Found(hits) == [raises |-> FALSE, hits |-> hits]

SearchOutcomes ==
    {[raises |-> TRUE, hits |-> << >>], Found(<< >>), Found(<<HitRos, HitNav>>),
     Found(<<HitRos, HitFtp>>), Found(<<HitNoUrl>>)}

EmbedOutcomes == {"vector", "empty", "raises"}

Generated(kind, text) == [kind |-> kind, text |-> text]

GenOutcomes ==
    {Generated("raises", ""), Generated("provider_error", ""),
     Generated("text", "ROS 2 is..."), Generated("text", "Nav2 is..."),
     Generated("text", "  "), Generated("text", "")}

Durations == {1}

RagTickSteps == {ResponseTtl}

NoQuery ==
    [n |-> 0, query |-> "", selected_text |-> "", path |-> "none", raised |-> FALSE,
     response |-> Absent, called |-> {}, search |-> "not called"]

-----------------------------------------------------------------------------
(* The inputs of the cache API *)

CacheValues == {Payload("v1", << >>, 0, 0, {}), Payload("v2", << >>, 0, 0, {})}

\* (query, selected_text) arguments: texts with and without the separator,
\* the text "None", an explicit None and a left-out selected_text.
CacheArgs ==
    {<<"q", Omitted>>, <<"q", PyNone>>, <<"q", "">>, <<"q", "None">>, <<"q", "x">>}

TtlArgs == {Absent, Some(OneSecondTtl)}

TickSteps == {1}

\* The second cache before any call: its entries, what its last get or delete
\* returned, and whether the entry that call asked for was expired or had
\* already been swept from the first cache.
NoPlain ==
    [cache |-> << >>, found |-> Absent, deleted |-> FALSE, expired |-> FALSE,
     swept |-> FALSE]

\* What the last call returned (get's value, delete's flag, cleanup's count)
\* and the size() of the cache when it was made.
NoCall ==
    [op |-> "none", found |-> Absent, deleted |-> FALSE, removed |-> 0,
     size_before |-> 0]

Call(op) == [NoCall EXCEPT !.op = op, !.size_before = size(cache)]

-----------------------------------------------------------------------------
(* Actions: one per call of the cache API *)

Get(query, selected_text) ==
    LET r == get(cache, query, selected_text, clock) IN
    /\ cache' = r.cache
    /\ cache_call' = [Call("get") EXCEPT !.found = r.found]
    /\ UNCHANGED <<outerVars, clock, ticks, limiterVars, ragVars, threadVars>>

Set(query, value, selected_text, ttl) ==
    LET key == _generate_key(query, selected_text) IN
    /\ key \in DOMAIN cache \/ size(cache) < MaxEntries
    /\ cache' = set(cache, query, value, selected_text, ttl, clock)
    /\ cache_call' = Call("set")
    /\ UNCHANGED <<outerVars, clock, ticks, limiterVars, ragVars, threadVars>>

Delete(query, selected_text) ==
    LET r == delete(cache, query, selected_text) IN
    /\ cache' = r.cache
    /\ cache_call' = [Call("delete") EXCEPT !.deleted = r.deleted]
    /\ UNCHANGED <<outerVars, clock, ticks, limiterVars, ragVars, threadVars>>

Clear ==
    /\ cache' = clear(cache)
    /\ cache_call' = Call("clear")
    /\ UNCHANGED <<outerVars, clock, ticks, limiterVars, ragVars, threadVars>>

CleanupExpired ==
    LET r == cleanup_expired(cache, clock) IN
    /\ cache' = r.cache
    /\ cache_call' = [Call("cleanup_expired") EXCEPT !.removed = r.removed]
    /\ UNCHANGED <<outerVars, clock, ticks, limiterVars, ragVars, threadVars>>

Tick(d) ==
    /\ ticks < MaxTicks
    /\ clock' = clock + d
    /\ ticks' = ticks + 1
    /\ UNCHANGED <<outerVars, cacheVars, limiterVars, ragVars, threadVars>>

-----------------------------------------------------------------------------
(* The cache used through its API *)

Init ==
    /\ clock = 0
    /\ ticks = 0
    /\ cache = << >>
    /\ cache_call = NoCall
    /\ requests_per_minute = rate_limit_per_minute
    /\ requests = [id \in Identities |-> << >>]
    /\ limiter_call = NoLimiterCall
    /\ history = [id \in Identities |-> << >>]
    /\ response_quality_metrics = ZeroMetrics
    /\ embed_client = "none"
    /\ uuids = 0
    /\ query_call = NoQuery
    /\ served = [r \in Requests |-> Absent]
    /\ logged = << >>
    /\ lock = "free"
    /\ threads = [th \in Threads |-> Idle]
    /\ thread_log = << >>
    /\ validation = NoValidation
    /\ snapshot = Absent
    /\ endpoint_call = NoRequest
    /\ plain = NoPlain

CacheGetStep == \E a \in CacheArgs : Get(a[1], a[2])
CacheSetStep == \E a \in CacheArgs, v \in CacheValues, t \in TtlArgs : Set(a[1], v, a[2], t)
CacheDeleteStep == \E a \in CacheArgs : Delete(a[1], a[2])
CacheTickStep == \E d \in TickSteps : Tick(d)

NextCache ==
    \/ CacheGetStep
    \/ CacheSetStep
    \/ CacheDeleteStep
    \/ Clear
    \/ CleanupExpired
    \/ CacheTickStep

SpecCache == Init /\ [][NextCache]_vars

-----------------------------------------------------------------------------
(* The cache with and without cleanup_expired: every get, set and delete is
   made on two caches, cleanup_expired on the first only *)

PlainCall(key) ==
    [NoPlain EXCEPT
        !.cache = plain.cache,
        !.expired = key \in DOMAIN plain.cache /\ Expired(plain.cache[key], clock),
        !.swept = key \in DOMAIN plain.cache /\ key \notin DOMAIN cache]

plainFrame == <<validation, snapshot, endpoint_call, clock, ticks, limiterVars, ragVars,
                threadVars>>

PlainGet(query, selected_text) ==
    LET r == get(cache, query, selected_text, clock)
        p == get(plain.cache, query, selected_text, clock)
    IN  /\ cache' = r.cache
        /\ cache_call' = [Call("get") EXCEPT !.found = r.found]
        /\ plain' = [PlainCall(_generate_key(query, selected_text)) EXCEPT
                        !.cache = p.cache, !.found = p.found]
        /\ UNCHANGED plainFrame

PlainSet(query, value, selected_text, ttl) ==
    LET key == _generate_key(query, selected_text) IN
    /\ key \in DOMAIN plain.cache \/ size(plain.cache) < MaxEntries
    /\ cache' = set(cache, query, value, selected_text, ttl, clock)
    /\ cache_call' = Call("set")
    /\ plain' = [PlainCall(key) EXCEPT
                    !.cache = set(plain.cache, query, value, selected_text, ttl, clock)]
    /\ UNCHANGED plainFrame

PlainDelete(query, selected_text) ==
    LET r == delete(cache, query, selected_text)
        p == delete(plain.cache, query, selected_text)
    IN  /\ cache' = r.cache
        /\ cache_call' = [Call("delete") EXCEPT !.deleted = r.deleted]
        /\ plain' = [PlainCall(_generate_key(query, selected_text)) EXCEPT
                        !.cache = p.cache, !.deleted = p.deleted]
        /\ UNCHANGED plainFrame

\* cleanup_expired, on the first cache only
PlainCleanup ==
    LET r == cleanup_expired(cache, clock) IN
    /\ cache' = r.cache
    /\ cache_call' = [Call("cleanup_expired") EXCEPT !.removed = r.removed]
    /\ UNCHANGED <<plain, plainFrame>>

PlainArgs == {<<"q", "">>, <<"q", "x">>}

PlainGetStep == \E a \in PlainArgs : PlainGet(a[1], a[2])
PlainSetStep ==
    \E a \in PlainArgs, v \in CacheValues, t \in TtlArgs : PlainSet(a[1], v, a[2], t)
PlainDeleteStep == \E a \in PlainArgs : PlainDelete(a[1], a[2])

NextPlain ==
    \/ PlainGetStep
    \/ PlainSetStep
    \/ PlainDeleteStep
    \/ PlainCleanup
    \/ CacheTickStep

SpecPlain == Init /\ [][NextPlain]_vars

-----------------------------------------------------------------------------
(* The cache used with texts that contain the separator of the key *)

SeparatorArgs == {<<"a::b", "c">>, <<"a", "b::c">>, <<"a", "b">>, <<"a", "c">>}

KeyGetStep == \E a \in SeparatorArgs : Get(a[1], a[2])
KeySetStep == \E a \in SeparatorArgs, v \in CacheValues, t \in TtlArgs : Set(a[1], v, a[2], t)
KeyDeleteStep == \E a \in SeparatorArgs : Delete(a[1], a[2])

NextCacheKeys ==
    \/ KeyGetStep
    \/ KeySetStep
    \/ KeyDeleteStep
    \/ CacheTickStep

SpecCacheKeys == Init /\ [][NextCacheKeys]_vars

-----------------------------------------------------------------------------
(* The rate limiter: RateLimiter(requests_per_minute = n) and its calls *)

RECURSIVE CallsMade(_, _)
CallsMade(h, ids) ==
    IF ids = {} THEN 0
    ELSE LET id == CHOOSE x \in ids : TRUE
         IN  Len(h[id]) + CallsMade(h, ids \ {id})

IsAllowed(api_key) ==
    LET r == is_allowed(requests[api_key], requests_per_minute, clock) IN
    /\ CallsMade(history, Identities) < MaxCalls
    /\ requests' = [requests EXCEPT ![api_key] = r.stamps]
    /\ limiter_call' = [op |-> "is_allowed", id |-> api_key, allowed |-> r.allowed]
    /\ history' = [history EXCEPT
                      ![api_key] = Append(@, [at |-> clock, allowed |-> r.allowed])]
    /\ UNCHANGED <<outerVars, clock, ticks, cacheVars, ragVars, threadVars, requests_per_minute>>

InitRate ==
    /\ clock = 0
    /\ ticks = 0
    /\ cache = << >>
    /\ cache_call = NoCall
    /\ requests_per_minute \in Limits
    /\ requests = [id \in Identities |-> << >>]
    /\ limiter_call = NoLimiterCall
    /\ history = [id \in Identities |-> << >>]
    /\ response_quality_metrics = ZeroMetrics
    /\ embed_client = "none"
    /\ uuids = 0
    /\ query_call = NoQuery
    /\ served = [r \in Requests |-> Absent]
    /\ logged = << >>
    /\ lock = "free"
    /\ threads = [th \in Threads |-> Idle]
    /\ thread_log = << >>
    /\ validation = NoValidation
    /\ snapshot = Absent
    /\ endpoint_call = NoRequest
    /\ plain = NoPlain

RateCallStep == \E id \in Identities : IsAllowed(id)
RateTickStep == \E d \in RateTickSteps : Tick(d)

NextRate ==
    \/ RateCallStep
    \/ RateTickStep

SpecRate == InitRate /\ [][NextRate]_vars

-----------------------------------------------------------------------------
(* The rate limiter under threads: is_allowed statement by statement.  The   *)
(* API-key dependency verify_api_key is a plain function, which the hosting *)
(* layer runs on a thread pool.                                             *)

\* "with self.lock": a thread enters when no thread holds the lock
LockFree_NoLock(holder) == TRUE

LockFree(holder) == holder = "free"

\* line 20: enter the with block
Acquire(th, api_key) ==
    /\ threads[th].pc = "idle"
    /\ CallsMade(history, Identities)
          + Cardinality({o \in Threads : threads[o].pc # "idle"}) < MaxCalls
    /\ LockFree(lock)
    /\ lock' = th
    /\ threads' = [threads EXCEPT ![th] = [pc |-> "locked", api_key |-> api_key]]
    /\ UNCHANGED <<outerVars, clock, ticks, cacheVars, limiterVars, ragVars, thread_log>>

\* line 21: current_time = time.time()
ReadTime(th) ==
    /\ threads[th].pc = "locked"
    /\ threads' = [threads EXCEPT ![th] =
                      [pc |-> "timed", api_key |-> @.api_key, current_time |-> clock]]
    /\ UNCHANGED <<outerVars, clock, ticks, cacheVars, limiterVars, ragVars, lock, thread_log>>

\* lines 24-27: the list of the identity is replaced by its pruned copy
PruneList(th) ==
    /\ threads[th].pc = "timed"
    /\ requests' = [requests EXCEPT ![threads[th].api_key] =
                       Prune(@, threads[th].current_time)]
    /\ threads' = [threads EXCEPT ![th].pc = "pruned"]
    /\ UNCHANGED <<outerVars, clock, ticks, cacheVars, ragVars, lock, thread_log,
                   requests_per_minute, limiter_call, history>>

\* line 30: the test of the limit
CheckLimit(th) ==
    /\ threads[th].pc = "pruned"
    /\ threads' = [threads EXCEPT ![th].pc =
                      IF Len(requests[threads[th].api_key]) < requests_per_minute
                      THEN "append" ELSE "deny"]
    /\ UNCHANGED <<outerVars, clock, ticks, cacheVars, limiterVars, ragVars, lock, thread_log>>

\* lines 32-33 and 35-36: record the request or not, leave the with block
\* and return
Finish(th) ==
    LET api_key == threads[th].api_key
        allowed == threads[th].pc = "append"
    IN  /\ threads[th].pc \in {"append", "deny"}
        /\ requests' = IF allowed
                       THEN [requests EXCEPT ![api_key] =
                                Append(@, threads[th].current_time)]
                       ELSE requests
        /\ limiter_call' = [op |-> "is_allowed", id |-> api_key, allowed |-> allowed]
        /\ history' = [history EXCEPT ![api_key] =
                          Append(@, [at |-> threads[th].current_time,
                                     allowed |-> allowed, thread |-> th])]
        /\ lock' = "free"
        /\ threads' = [threads EXCEPT ![th] = Idle]
        /\ UNCHANGED <<outerVars, clock, ticks, cacheVars, ragVars, requests_per_minute, thread_log>>

\* the threads call for one and the same identity
ThreadIdentities == {"key1"}

ThreadAcquireStep == \E th \in Threads, id \in ThreadIdentities : Acquire(th, id)
ThreadReadTimeStep == \E th \in Threads : ReadTime(th)
ThreadPruneStep == \E th \in Threads : PruneList(th)
ThreadCheckStep == \E th \in Threads : CheckLimit(th)
ThreadFinishStep == \E th \in Threads : Finish(th)

NextRateThreads ==
    \/ ThreadAcquireStep
    \/ ThreadReadTimeStep
    \/ ThreadPruneStep
    \/ ThreadCheckStep
    \/ ThreadFinishStep
    \/ RateTickStep

SpecRateThreads == InitRate /\ [][NextRateThreads]_vars

-----------------------------------------------------------------------------
(* The metrics tracker: log_query_start / log_query_end / reset_metrics *)

\* what a caller passes as response: nothing, or a response with so many
\* citations
MetricResponses == {Absent, Some(1), Some(2)}

\* the start times a caller holds: log_query_start was called now or a second ago
LogStarts == {s \in {clock - 1, clock} : s >= 0}

\* log_query_end(start_time, success, response); start_time is a value that
\* log_query_start returned earlier
LogQueryEnd(start_time, success, response) ==
    /\ Len(logged) < MaxLogs
    /\ response_quality_metrics' =
          log_query_end(response_quality_metrics, start_time, clock, success, response)
    /\ logged' = Append(logged, Logged(clock - start_time, success, response))
    /\ snapshot' = Follow(snapshot, response_quality_metrics'.metrics)
    /\ UNCHANGED <<validation, endpoint_call, plain, clock, ticks, cacheVars, limiterVars,
                   threadVars, embed_client, uuids, query_call, served>>

ResetMetrics ==
    /\ response_quality_metrics' = reset_metrics(response_quality_metrics)
    /\ logged' = << >>
    /\ snapshot' = Unshare(snapshot)
    /\ UNCHANGED <<validation, endpoint_call, plain, clock, ticks, cacheVars, limiterVars,
                   threadVars, embed_client, uuids, query_call, served>>

MetricsLogStep ==
    \E start_time \in LogStarts, success \in BOOLEAN, response \in MetricResponses :
        LogQueryEnd(start_time, success, response)

NextMetrics ==
    \/ MetricsLogStep
    \/ ResetMetrics
    \/ CacheTickStep

SpecMetrics == Init /\ [][NextMetrics]_vars

-----------------------------------------------------------------------------
(* The metrics tracker under threads: log_query_end statement by statement. *)
(* The tracker holds no lock; "d[k] += x" is a load of d[k] followed by a    *)
(* store, and another thread may run between the two.                       *)

\* the part of the state a metrics thread leaves alone
metricsFrame == <<clock, ticks, cacheVars, limiterVars, lock, thread_log,
                  embed_client, uuids, query_call, served, outerVars>>

\* a thread that has returned from its call
ThreadReturned == [pc |-> "returned"]

\* a thread enters log_query_end(start_time, success, response); each thread
\* serves one request
BeginLog(th, start_time, success, response) ==
    /\ threads[th].pc = "idle"
    /\ threads' = [threads EXCEPT ![th] =
                      [pc |-> "end_time", start_time |-> start_time,
                       success |-> success, response |-> response,
                       response_time |-> 0, tmp |-> 0]]
    /\ UNCHANGED <<metricsFrame, response_quality_metrics, logged>>

\* lines 27-28: end_time = time.time(); response_time = end_time - start_time
TakeEndTime(th) ==
    /\ threads[th].pc = "end_time"
    /\ threads' = [threads EXCEPT ![th].pc = "load_total_queries",
                                  ![th].response_time = clock - threads[th].start_time]
    /\ UNCHANGED <<metricsFrame, response_quality_metrics, logged>>

\* the load half of a statement: the value read is kept in tmp
Load(th, from, to, value) ==
    /\ threads[th].pc = from
    /\ threads' = [threads EXCEPT ![th].pc = to, ![th].tmp = value]
    /\ UNCHANGED <<metricsFrame, response_quality_metrics, logged>>

\* the store half of a statement
Store(th, from, to, field, value) ==
    /\ threads[th].pc = from
    /\ response_quality_metrics' =
          [response_quality_metrics EXCEPT !.metrics[field] = value]
    /\ threads' = [threads EXCEPT ![th].pc = to]
    /\ UNCHANGED <<metricsFrame, logged>>

\* line 30: self.metrics["total_queries"] += 1
LoadTotalQueries(th) ==
    Load(th, "load_total_queries", "store_total_queries",
         response_quality_metrics.metrics.total_queries)

StoreTotalQueries(th) ==
    Store(th, "store_total_queries", "append_time", "total_queries",
          threads[th].tmp + 1)

\* line 31: self.response_times.append(response_time)
AppendTime(th) ==
    /\ threads[th].pc = "append_time"
    /\ response_quality_metrics' =
          [response_quality_metrics EXCEPT
              !.response_times = Append(@, threads[th].response_time)]
    /\ threads' = [threads EXCEPT ![th].pc = "load_total_time"]
    /\ UNCHANGED <<metricsFrame, logged>>

\* line 32: self.metrics["total_response_time"] += response_time
LoadTotalTime(th) ==
    Load(th, "load_total_time", "store_total_time",
         response_quality_metrics.metrics.total_response_time)

StoreTotalTime(th) ==
    Store(th, "store_total_time",
          IF threads[th].success THEN "load_successful" ELSE "load_failed",
          "total_response_time", threads[th].tmp + threads[th].response_time)

\* line 35: self.metrics["successful_queries"] += 1
LoadSuccessful(th) ==
    Load(th, "load_successful", "store_successful",
         response_quality_metrics.metrics.successful_queries)

StoreSuccessful(th) ==
    Store(th, "store_successful",
          IF threads[th].response # Absent THEN "load_citations" ELSE "load_avg_time",
          "successful_queries", threads[th].tmp + 1)

\* line 37: self.metrics["total_citations"] += len(response.citations)
LoadCitations(th) ==
    Load(th, "load_citations", "store_citations",
         response_quality_metrics.metrics.total_citations)

StoreCitations(th) ==
    Store(th, "store_citations", "load_avg_time", "total_citations",
          threads[th].tmp + Citations(threads[th].response))

\* line 39: self.metrics["failed_queries"] += 1
LoadFailed(th) ==
    Load(th, "load_failed", "store_failed",
         response_quality_metrics.metrics.failed_queries)

StoreFailed(th) ==
    Store(th, "store_failed", "load_avg_time", "failed_queries", threads[th].tmp + 1)

\* lines 42-45: the right-hand side is evaluated, then stored
LoadAvgTime(th) ==
    Load(th, "load_avg_time", "store_avg_time",
         Average(response_quality_metrics.metrics.total_response_time,
                 response_quality_metrics.metrics.successful_queries))

StoreAvgTime(th) ==
    Store(th, "store_avg_time", "load_avg_citations", "avg_response_time",
          threads[th].tmp)

\* lines 46-49
LoadAvgCitations(th) ==
    Load(th, "load_avg_citations", "store_avg_citations",
         Average(response_quality_metrics.metrics.total_citations,
                 response_quality_metrics.metrics.successful_queries))

\* the last store, and the return
StoreAvgCitations(th) ==
    /\ threads[th].pc = "store_avg_citations"
    /\ response_quality_metrics' =
          [response_quality_metrics EXCEPT
              !.metrics.avg_citations_per_response = threads[th].tmp]
    /\ logged' = Append(logged, Logged(threads[th].response_time,
                                       threads[th].success, threads[th].response))
    /\ threads' = [threads EXCEPT ![th] = ThreadReturned]
    /\ UNCHANGED metricsFrame

\* what the threads pass as response
ThreadResponses == {Some(1)}

\* each thread took its start time when it entered
BeginLogStep ==
    \E th \in Threads, success \in BOOLEAN, response \in ThreadResponses :
        BeginLog(th, clock, success, response)

NextMetricsThreads ==
    \/ BeginLogStep
    \/ \E th \in Threads : TakeEndTime(th)
    \/ \E th \in Threads : LoadTotalQueries(th)
    \/ \E th \in Threads : StoreTotalQueries(th)
    \/ \E th \in Threads : AppendTime(th)
    \/ \E th \in Threads : LoadTotalTime(th)
    \/ \E th \in Threads : StoreTotalTime(th)
    \/ \E th \in Threads : LoadSuccessful(th)
    \/ \E th \in Threads : StoreSuccessful(th)
    \/ \E th \in Threads : LoadCitations(th)
    \/ \E th \in Threads : StoreCitations(th)
    \/ \E th \in Threads : LoadFailed(th)
    \/ \E th \in Threads : StoreFailed(th)
    \/ \E th \in Threads : LoadAvgTime(th)
    \/ \E th \in Threads : StoreAvgTime(th)
    \/ \E th \in Threads : LoadAvgCitations(th)
    \/ \E th \in Threads : StoreAvgCitations(th)
    \/ CacheTickStep

SpecMetricsThreads == Init /\ [][NextMetricsThreads]_vars

-----------------------------------------------------------------------------
(* The cache under threads: get, set and delete statement by statement.  The *)
(* cache holds no lock.                                                     *)

\* the part of the state a cache thread leaves alone
cacheFrame == <<clock, ticks, cache_call, limiterVars, ragVars, lock, outerVars>>

\* a completed call, as the history keeps it
Done(th, op, key, value, raised) ==
    [thread |-> th, op |-> op, key |-> key, value |-> value, raised |-> raised]

\* a thread enters get, set or delete: line 22, 42 or 58
Enter(th, op, query, selected_text) ==
    /\ threads[th].pc = "idle"
    /\ Len(thread_log) + Cardinality({o \in Threads : threads[o].pc # "idle"}) < MaxOps
    /\ threads' = [threads EXCEPT ![th] =
                      [pc |-> op, key |-> _generate_key(query, selected_text),
                       cached_item |-> Absent]]
    /\ UNCHANGED <<cacheFrame, cache, thread_log>>

\* a thread leaves its call with a result, or with the KeyError it raised
Leave(th, op, value, raised) ==
    /\ threads' = [threads EXCEPT ![th] = Idle]
    /\ thread_log' = Append(thread_log, Done(th, op, threads[th].key, value, raised))

\* line 24: if key in self.cache; lines 37-38 when it is not
GetTest(th) ==
    /\ threads[th].pc = "get"
    /\ IF threads[th].key \in DOMAIN cache
       THEN /\ threads' = [threads EXCEPT ![th].pc = "get_read"]
            /\ UNCHANGED thread_log
       ELSE Leave(th, "get", Absent, FALSE)
    /\ UNCHANGED <<cacheFrame, cache>>

\* line 25: cached_item = self.cache[key]
GetRead(th) ==
    /\ threads[th].pc = "get_read"
    /\ IF threads[th].key \in DOMAIN cache
       THEN /\ threads' = [threads EXCEPT ![th].pc = "get_expiry",
                                          ![th].cached_item = Some(cache[threads[th].key])]
            /\ UNCHANGED thread_log
       ELSE Leave(th, "get", Absent, TRUE)
    /\ UNCHANGED <<cacheFrame, cache>>

\* line 28: if time.time() > cached_item["expiry"]; lines 34-35 when it is not
GetExpiry(th) ==
    /\ threads[th].pc = "get_expiry"
    /\ IF Expired(threads[th].cached_item[1], clock)
       THEN /\ threads' = [threads EXCEPT ![th].pc = "get_del"]
            /\ UNCHANGED thread_log
       ELSE Leave(th, "get", Some(threads[th].cached_item[1].value), FALSE)
    /\ UNCHANGED <<cacheFrame, cache>>

\* lines 30-32: del self.cache[key]; return None
GetDel(th) ==
    /\ threads[th].pc = "get_del"
    /\ IF threads[th].key \in DOMAIN cache
       THEN /\ cache' = Remove(cache, {threads[th].key})
            /\ Leave(th, "get", Absent, FALSE)
       ELSE /\ UNCHANGED cache
            /\ Leave(th, "get", Absent, TRUE)
    /\ UNCHANGED cacheFrame

\* lines 44-54: the entry is built and stored in one dictionary store
SetStore(th, value, ttl) ==
    /\ threads[th].pc = "set"
    /\ cache' = Put(cache, threads[th].key,
                    [value |-> value, expiry |-> clock + EffectiveTtl(ttl)])
    /\ Leave(th, "set", Some(value), FALSE)
    /\ UNCHANGED cacheFrame

\* line 60: if key in self.cache; line 65 when it is not
DeleteTest(th) ==
    /\ threads[th].pc = "delete"
    /\ IF threads[th].key \in DOMAIN cache
       THEN /\ threads' = [threads EXCEPT ![th].pc = "delete_del"]
            /\ UNCHANGED thread_log
       ELSE Leave(th, "delete", Absent, FALSE)
    /\ UNCHANGED <<cacheFrame, cache>>

\* lines 61-63: del self.cache[key]; return True
DeleteDel(th) ==
    /\ threads[th].pc = "delete_del"
    /\ IF threads[th].key \in DOMAIN cache
       THEN /\ cache' = Remove(cache, {threads[th].key})
            /\ Leave(th, "delete", Absent, FALSE)
       ELSE /\ UNCHANGED cache
            /\ Leave(th, "delete", Absent, TRUE)
    /\ UNCHANGED cacheFrame

\* the threads work on one and the same fingerprint
ThreadArgs == {<<"q", "">>}

EnterStep ==
    \E th \in Threads, op \in {"get", "set", "delete"}, a \in ThreadArgs :
        Enter(th, op, a[1], a[2])

SetStoreStep == \E th \in Threads, v \in CacheValues, t \in TtlArgs : SetStore(th, v, t)

NextCacheThreads ==
    \/ EnterStep
    \/ \E th \in Threads : GetTest(th)
    \/ \E th \in Threads : GetRead(th)
    \/ \E th \in Threads : GetExpiry(th)
    \/ \E th \in Threads : GetDel(th)
    \/ SetStoreStep
    \/ \E th \in Threads : DeleteTest(th)
    \/ \E th \in Threads : DeleteDel(th)
    \/ CacheTickStep

SpecCacheThreads == Init /\ [][NextCacheThreads]_vars

-----------------------------------------------------------------------------
(* cleanup_expired run by a scheduler thread while request threads call get,
   set and delete: the sweep statement by statement *)

\* what a completed cleanup_expired returned, with what it did itself: the
\* entries it deleted and whether one of them was unexpired when deleted
Swept(count, evicted, live) == [count |-> count, evicted |-> evicted, live |-> live]

\* lines 74-75 and the start of the iteration of line 78: the iterator
\* remembers the size of the dict
SweepEnter(th) ==
    /\ threads[th].pc = "idle"
    /\ Len(thread_log) + Cardinality({o \in Threads : threads[o].pc # "idle"}) < MaxOps
    /\ threads' = [threads EXCEPT ![th] =
                      [pc |-> "sweep_next", key |-> "", cached_item |-> Absent,
                       current_time |-> clock, initial_count |-> size(cache),
                       iter_size |-> size(cache), scanned |-> {},
                       expired_keys |-> << >>, evicted |-> 0, live |-> FALSE]]
    /\ UNCHANGED <<cacheFrame, cache, thread_log>>

\* lines 77-80, one step of the iteration over self.cache.items(): the
\* iterator raises RuntimeError when the dict has changed size since the
\* iteration began; else it yields the next entry, which is kept when it has
\* expired, or ends
SweepNext(th) ==
    /\ threads[th].pc = "sweep_next"
    /\ IF size(cache) # threads[th].iter_size
       THEN Leave(th, "cleanup_expired", Absent, TRUE)
       ELSE IF DOMAIN cache \subseteq threads[th].scanned
       THEN /\ threads' = [threads EXCEPT ![th].pc = "sweep_del"]
            /\ UNCHANGED thread_log
       ELSE /\ \E key \in DOMAIN cache \ threads[th].scanned :
                threads' = [threads EXCEPT
                               ![th].scanned = @ \cup {key},
                               ![th].expired_keys =
                                   IF threads[th].current_time > cache[key].expiry
                                   THEN Append(@, key)
                                   ELSE @]
            /\ UNCHANGED thread_log
    /\ UNCHANGED <<cacheFrame, cache>>

\* lines 82-83, one pass of the loop: del self.cache[key] raises KeyError
\* when the entry is gone
SweepDel(th) ==
    /\ threads[th].pc = "sweep_del"
    /\ IF threads[th].expired_keys = << >>
       THEN /\ threads' = [threads EXCEPT ![th].pc = "sweep_return"]
            /\ UNCHANGED <<cache, thread_log>>
       ELSE LET key == Head(threads[th].expired_keys) IN
            IF key \in DOMAIN cache
            THEN /\ cache' = Remove(cache, {key})
                 /\ threads' = [threads EXCEPT
                                   ![th].expired_keys = Tail(@),
                                   ![th].evicted = @ + 1,
                                   ![th].live = @ \/ ~Expired(cache[key], clock)]
                 /\ UNCHANGED thread_log
            ELSE /\ UNCHANGED cache
                 /\ Leave(th, "cleanup_expired", Absent, TRUE)
    /\ UNCHANGED cacheFrame

\* lines 85-89: removed_count = initial_count - len(self.cache)
SweepReturn(th) ==
    /\ threads[th].pc = "sweep_return"
    /\ Leave(th, "cleanup_expired",
             Some(Swept(threads[th].initial_count - size(cache), threads[th].evicted,
                        threads[th].live)),
             FALSE)
    /\ UNCHANGED <<cacheFrame, cache>>

\* the scheduler's thread
Scheduler == "t1"

NextSweepThreads ==
    \/ EnterStep
    \/ \E th \in Threads : GetTest(th)
    \/ \E th \in Threads : GetRead(th)
    \/ \E th \in Threads : GetExpiry(th)
    \/ \E th \in Threads : GetDel(th)
    \/ SetStoreStep
    \/ \E th \in Threads : DeleteTest(th)
    \/ \E th \in Threads : DeleteDel(th)
    \/ SweepEnter(Scheduler)
    \/ SweepNext(Scheduler)
    \/ SweepDel(Scheduler)
    \/ SweepReturn(Scheduler)
    \/ CacheTickStep

SpecSweepThreads == Init /\ [][NextSweepThreads]_vars

-----------------------------------------------------------------------------
(* The orchestrator: requests served one at a time *)

\* What the collaborators do in one run: a collaborator that the run does not
\* call has no outcome (Absent).
Options(outcomes) == {Absent} \cup {Some(o) : o \in outcomes}

EnvFor(c, client, query_request, now) ==
    LET Env(e, s, g) == [embed |-> e, search |-> s, gen |-> g]
        AfterSearch(e, s) ==
            IF search_documents(s, SearchLimit) = << >>
            THEN {Env(Some(e), Some(s), Absent)}
            ELSE {Env(Some(e), Some(s), Some(g)) : g \in GenOutcomes}
        AfterEmbed(e) ==
            IF EmbeddingTruthy(generate_embedding(client, e))
            THEN UNION {AfterSearch(e, s) : s \in SearchOutcomes}
            ELSE {Env(Some(e), Absent, Absent)}
    IN  IF CachedTruthy(get(c, query_request.query, query_request.selected_text, now).found)
        THEN {Env(Absent, Absent, Absent)}
        ELSE UNION {AfterEmbed(e) : e \in EmbedOutcomes}

\* how the search of a run ended, as the history keeps it
SearchResult(env) ==
    IF env.search = Absent THEN "not called"
    ELSE IF env.search[1].raises THEN "failed"
    ELSE IF env.search[1].hits = << >> THEN "empty"
    ELSE "found"

QueryDocumentation(query_request, env, duration) ==
    \E r \in {query_documentation(cache, response_quality_metrics, embed_client, uuids,
                                 query_request,
                                 env, clock, clock + duration)} :
        /\ cache' = r.cache
        /\ response_quality_metrics' = r.metrics
        /\ logged' = logged \o r.logged
        /\ uuids' = r.uuids
        /\ query_call' =
              [n |-> query_call.n + 1, query |-> query_request.query,
               selected_text |-> query_request.selected_text, path |-> r.path,
               raised |-> r.raised, response |-> r.response, called |-> r.called,
               search |-> SearchResult(env)]
        /\ served' =
              IF r.path = "success" /\ HasContent(r.response[1].answer)
              THEN [served EXCEPT ![query_request] =
                        Some([answer |-> r.response[1].answer,
                              citations |-> r.response[1].citations,
                              query_id |-> r.response[1].query_id,
                              at |-> clock + duration])]
              ELSE served
        /\ clock' = clock + duration
        /\ UNCHANGED <<ticks, cache_call, limiterVars, embed_client, threadVars>>

InitRag ==
    /\ clock = 0
    /\ ticks = 0
    /\ cache = << >>
    /\ cache_call = NoCall
    /\ requests_per_minute = rate_limit_per_minute
    /\ requests = [id \in Identities |-> << >>]
    /\ limiter_call = NoLimiterCall
    /\ history = [id \in Identities |-> << >>]
    /\ response_quality_metrics = ZeroMetrics
    /\ embed_client \in {"cohere", "none"}
    /\ uuids = 0
    /\ query_call = NoQuery
    /\ served = [r \in Requests |-> Absent]
    /\ logged = << >>
    /\ lock = "free"
    /\ threads = [th \in Threads |-> Idle]
    /\ thread_log = << >>
    /\ validation = NoValidation
    /\ snapshot = Absent
    /\ endpoint_call = NoRequest
    /\ plain = NoPlain

RagQueryStep ==
    /\ query_call.n < MaxQueries
    /\ \E query_request \in Requests :
        \E env \in EnvFor(cache, embed_client, query_request, clock) :
            \E duration \in Durations :
                /\ QueryDocumentation(query_request, env, duration)
                /\ UNCHANGED outerVars

RagTickStep == \E d \in RagTickSteps : Tick(d)

NextRag ==
    \/ RagQueryStep
    \/ RagTickStep

SpecRag == InitRag /\ [][NextRag]_vars

-----------------------------------------------------------------------------
(* The orchestrator on larger result sets: more points than the search limit,
   and a point found twice *)

DocIds == <<"doc1", "doc2", "doc3", "doc4", "doc5", "doc6">>

DocHit(i) ==
    Hit(DocIds[i], [content |-> "Section of the book", title |-> "Section",
                    url |-> "/docs/section"], 100 - (10 * i))

CitationSearchOutcomes ==
    {Found([i \in 1..(SearchLimit + 1) |-> DocHit(i)]),
     Found(<<DocHit(2), DocHit(1), DocHit(3)>>),
     Found(<<DocHit(1), DocHit(1)>>),
     Found(<<DocHit(1), HitFtp>>),
     Found(<< >>)}

CitationGenOutcomes ==
    {Generated("raises", ""), Generated("text", "ROS 2 is..."), Generated("text", "  ")}

CitationEnvFor(c, query_request, now) ==
    LET Env(e, s, g) == [embed |-> e, search |-> s, gen |-> g]
        AfterSearch(s) ==
            IF search_documents(s, SearchLimit) = << >>
            THEN {Env(Some("vector"), Some(s), Absent)}
            ELSE {Env(Some("vector"), Some(s), Some(g)) : g \in CitationGenOutcomes}
    IN  IF CachedTruthy(get(c, query_request.query, query_request.selected_text, now).found)
        THEN {Env(Absent, Absent, Absent)}
        ELSE UNION {AfterSearch(s) : s \in CitationSearchOutcomes}

CitationQueryStep ==
    /\ query_call.n < MaxQueries
    /\ \E query_request \in Requests :
        \E env \in CitationEnvFor(cache, query_request, clock) :
            \E duration \in Durations :
                /\ QueryDocumentation(query_request, env, duration)
                /\ UNCHANGED outerVars

NextCitations == CitationQueryStep

SpecCitations == InitRag /\ [][NextCitations]_vars

-----------------------------------------------------------------------------
(* The orchestrator under threads: the cache-hit path (lines 100-109)       *)
(* statement by statement.  cache.get returns the dict the cache holds, not  *)
(* a copy, and the orchestrator holds no lock.                               *)

ragFrame == <<ticks, cache_call, limiterVars, embed_client, query_call, served,
              lock, outerVars>>

\* a query_documentation call of a thread that has returned
QueryDone(th, response) == [thread |-> th, op |-> "query", response |-> response]

\* line 100, for a probe that hits: cached_response is the stored dict, which
\* the thread keeps by the key it is stored under
HitProbe(th, query_request) ==
    LET probe == get(cache, query_request.query, query_request.selected_text, clock)
    IN  /\ threads[th].pc = "idle"
        /\ Len(thread_log) + Cardinality({t \in Threads : threads[t].pc # "idle"}) < MaxOps
        /\ CachedTruthy(probe.found)
        /\ threads' = [threads EXCEPT ![th] =
               [pc |-> "stamp_id", start_time |-> clock,
                key |-> _generate_key(query_request.query, query_request.selected_text)]]
        /\ UNCHANGED <<ragFrame, clock, cache, uuids, response_quality_metrics, logged,
                       thread_log>>

\* line 104: cached_response["query_id"] = str(uuid.uuid4())
HitStampId(th) ==
    /\ threads[th].pc = "stamp_id"
    /\ uuids' = uuids + 1
    /\ cache' = [cache EXCEPT ![threads[th].key].value.query_id = uuids + 1]
    /\ threads' = [threads EXCEPT ![th].pc = "stamp_time"]
    /\ UNCHANGED <<ragFrame, clock, response_quality_metrics, logged, thread_log>>

\* line 105: cached_response["timestamp"] = ...
HitStampTime(th) ==
    /\ threads[th].pc = "stamp_time"
    /\ cache' = [cache EXCEPT ![threads[th].key].value.timestamp = clock]
    /\ threads' = [threads EXCEPT ![th].pc = "build"]
    /\ UNCHANGED <<ragFrame, clock, uuids, response_quality_metrics, logged, thread_log>>

\* line 107: response = QueryResponse(**cached_response) reads the dict as it
\* is now
HitBuild(th) ==
    /\ threads[th].pc = "build"
    /\ ResponseValid(cache[threads[th].key].value)
    /\ threads' = [threads EXCEPT ![th] =
           [pc |-> "log", start_time |-> @.start_time, key |-> @.key,
            response |-> cache[@.key].value]]
    /\ UNCHANGED <<ragFrame, clock, cache, uuids, response_quality_metrics, logged,
                   thread_log>>

\* lines 108-109: log_query_end and return
HitLog(th) ==
    LET response == threads[th].response IN
    /\ threads[th].pc = "log"
    /\ response_quality_metrics' =
          log_query_end(response_quality_metrics, threads[th].start_time, clock, TRUE,
                        Some(Len(response.citations)))
    /\ logged' = Append(logged, Logged(clock - threads[th].start_time, TRUE,
                                       Some(Len(response.citations))))
    /\ thread_log' = Append(thread_log, QueryDone(th, response))
    /\ threads' = [threads EXCEPT ![th] = Idle]
    /\ UNCHANGED <<ragFrame, clock, cache, uuids>>

\* the request the threads make, and the run that answered it first
ThreadRequests == {Request("q", "")}

FirstRunEnvs ==
    {[embed |-> Some("vector"), search |-> Some(Found(<<HitRos, HitNav>>)),
      gen |-> Some(Generated("text", "ROS 2 is..."))]}

\* a run on a miss, before the threads ask for the same request
FirstRunStep ==
    \E query_request \in ThreadRequests, env \in FirstRunEnvs, duration \in Durations :
        /\ ~CachedTruthy(get(cache, query_request.query, query_request.selected_text,
                             clock).found)
        /\ QueryDocumentation(query_request, env, duration)
        /\ UNCHANGED outerVars

HitProbeStep == \E th \in Threads, query_request \in ThreadRequests : HitProbe(th, query_request)
HitStampIdStep == \E th \in Threads : HitStampId(th)
HitStampTimeStep == \E th \in Threads : HitStampTime(th)
HitBuildStep == \E th \in Threads : HitBuild(th)
HitLogStep == \E th \in Threads : HitLog(th)

NextRagThreads ==
    \/ FirstRunStep
    \/ HitProbeStep
    \/ HitStampIdStep
    \/ HitStampTimeStep
    \/ HitBuildStep
    \/ HitLogStep

SpecRagThreads == InitRag /\ [][NextRagThreads]_vars

-----------------------------------------------------------------------------
(* api/v1/endpoints/query.py: POST /query *)

\* the text s repeated n times
RECURSIVE Repeat(_, _)
Repeat(s, n) ==
    IF n = 0 THEN ""
    ELSE IF n % 2 = 0 THEN Repeat(s \o s, n \div 2)
    ELSE s \o Repeat(s \o s, n \div 2)

\* QueryRequest(**body): the body of a request is parsed into the model before
\* the handler is entered; a body the model rejects is answered with 422
RequestValid(body) ==
    /\ Len(body.query) >= 1
    /\ Len(body.query) <= MaxQueryLength
    /\ body.selected_text = PyNone \/ Len(body.selected_text) <= MaxSelectedTextLength

\* what the caller of POST /query gets
Answered422(body) == [query |-> body.query, status |-> "422", ran |-> FALSE]
Answered400(body) == [query |-> body.query, status |-> "400", ran |-> FALSE]

\* lines 24-48: the status of a request that reached the orchestrator
StatusAfter(raised) == IF raised THEN "500" ELSE "200"

\* the handler's own checks (lines 28-32) reject the request
HandlerRejects(body) == ~HasContent(body.query) \/ Len(body.query) > MaxQueryLength

PostQuery(body, env, duration) ==
    /\ endpoint_call.n < MaxPosts
    /\ IF ~RequestValid(body)
       THEN /\ endpoint_call' = [n |-> endpoint_call.n + 1] @@ Answered422(body)
            /\ UNCHANGED <<clock, ticks, cacheVars, limiterVars, ragVars, threadVars,
                           validation, snapshot, plain>>
       ELSE IF HandlerRejects(body)
       THEN /\ endpoint_call' = [n |-> endpoint_call.n + 1] @@ Answered400(body)
            /\ UNCHANGED <<clock, ticks, cacheVars, limiterVars, ragVars, threadVars,
                           validation, snapshot, plain>>
       ELSE /\ QueryDocumentation(body, env, duration)
            /\ endpoint_call' =
                  [n |-> endpoint_call.n + 1, query |-> body.query,
                   status |-> StatusAfter(query_call'.raised), ran |-> TRUE]
            /\ UNCHANGED <<validation, snapshot, plain>>

\* the bodies posted: an empty query, a blank one, a short one, one of exactly
\* 2000 characters and one of 2001
LongQuery == Repeat("x", MaxQueryLength)

Bodies ==
    {Request(query, "") : query \in {"", "  ", "q", LongQuery, LongQuery \o "x"}}

InitEndpoint ==
    /\ clock = 0
    /\ ticks = 0
    /\ cache = << >>
    /\ cache_call = NoCall
    /\ requests_per_minute = rate_limit_per_minute
    /\ requests = [id \in Identities |-> << >>]
    /\ limiter_call = NoLimiterCall
    /\ history = [id \in Identities |-> << >>]
    /\ response_quality_metrics = ZeroMetrics
    /\ embed_client = "cohere"
    /\ uuids = 0
    /\ query_call = NoQuery
    /\ served = [r \in Bodies |-> Absent]
    /\ logged = << >>
    /\ lock = "free"
    /\ threads = [th \in Threads |-> Idle]
    /\ thread_log = << >>
    /\ validation = NoValidation
    /\ snapshot = Absent
    /\ endpoint_call = NoRequest
    /\ plain = NoPlain

EndpointPostStep ==
    /\ endpoint_call.n < MaxPosts
    /\ \E body \in Bodies :
          \E env \in (IF RequestValid(body) /\ ~HandlerRejects(body)
                      THEN EnvFor(cache, embed_client, body, clock)
                      ELSE {[embed |-> Absent, search |-> Absent, gen |-> Absent]}) :
              \E duration \in Durations : PostQuery(body, env, duration)

NextEndpoint == EndpointPostStep

SpecEndpoint == InitEndpoint /\ [][NextEndpoint]_vars

-----------------------------------------------------------------------------
(* Properties of the orchestrator *)

\* a step that is one run of query_documentation
QueryRun == query_call'.n = query_call.n + 1

\* the run was logged as failed
LoggedFailed ==
    response_quality_metrics'.metrics.failed_queries =
        response_quality_metrics.metrics.failed_queries + 1

\* the run was logged as a success
LoggedSuccess ==
    /\ response_quality_metrics'.metrics.successful_queries =
          response_quality_metrics.metrics.successful_queries + 1
    /\ response_quality_metrics'.metrics.failed_queries =
          response_quality_metrics.metrics.failed_queries
    /\ response_quality_metrics'.metrics.total_queries =
          response_quality_metrics.metrics.total_queries + 1

\* C1: query_documentation never raises. Whatever the embedding, search and
\* generation collaborators do (raise, return nothing, return malformed
\* documents), the run returns a QueryResponse that passes the model's
\* validation and carries an identifier drawn in this run; and whenever the
\* run is logged as failed (the error and the no-documents outcomes), the
\* answer is one of the two explanatory texts and the citation list is empty.
C1_NeverRaises ==
    [][QueryRun =>
        /\ ~query_call'.raised
        /\ query_call'.response # Absent
        /\ ResponseValid(query_call'.response[1])
        /\ query_call'.response[1].query_id > uuids
        /\ query_call'.response[1].query_id <= uuids'
        /\ LoggedFailed =>
              /\ query_call'.response[1].answer \in {ApologyAnswer, NoDocumentsAnswer}
              /\ query_call'.response[1].citations = << >>]_vars

\* C1 witness: a run in which generation was reached and an exception was
\* handled: the caller got the apology with no citations.
C1_Witness ==
    /\ query_call.path = "error"
    /\ "generate" \in query_call.called
    /\ ~query_call.raised
    /\ query_call.response # Absent
    /\ query_call.response[1].answer = ApologyAnswer
    /\ query_call.response[1].citations = << >>

\* C1 witness: a run in which the embedding came back empty.
C1_WitnessEmbedding ==
    /\ query_call.path = "error"
    /\ query_call.called = {"embed"}
    /\ query_call.response # Absent

\* C2: once a request (query, selected_text) has completed on the success path
\* with a non-blank answer, the same request made at most 7200 seconds after
\* that response was written returns the same answer and the same citations
\* under a query_id different from the first one's.
C2_RepeatWithinTtl ==
    [][QueryRun =>
        LET query_request == Request(query_call'.query, query_call'.selected_text)
            first == served[query_request]
        IN  (first # Absent /\ clock - first[1].at <= ResponseTtl) =>
                /\ query_call'.response # Absent
                /\ query_call'.response[1].answer = first[1].answer
                /\ query_call'.response[1].citations = first[1].citations
                /\ query_call'.response[1].query_id # first[1].query_id]_vars

\* C2 witness: the repeat arrives at the far end of the window, exactly 7200
\* seconds after the first response was written, and is served the first
\* answer under a new query_id.
C2_Witness ==
    LET query_request == Request(query_call.query, query_call.selected_text)
        first == served[query_request]
    IN  /\ query_call.n > 1
        /\ first # Absent
        /\ query_call.path = "hit"
        /\ query_call.response[1].timestamp > first[1].at + ResponseTtl
        /\ query_call.response[1].answer = first[1].answer
        /\ Len(query_call.response[1].citations) > 0
        /\ query_call.response[1].query_id # first[1].query_id

\* the cache holds an unexpired entry under the key of (query, selected_text)
ProbeHits(query, selected_text) ==
    LET key == _generate_key(query, selected_text) IN
    /\ key \in DOMAIN cache
    /\ clock <= cache[key].expiry

\* C3: when the cache probe for (query, selected_text) hits, the run returns a
\* response without calling the embedding, the search or the generation
\* collaborator, and the query is logged as a success.
C3_HitSkipsPipeline ==
    [][(QueryRun /\ ProbeHits(query_call'.query, query_call'.selected_text)) =>
        /\ query_call'.called = {}
        /\ ~query_call'.raised
        /\ query_call'.response # Absent
        /\ LoggedSuccess]_vars

\* C3 witness: a run served from the cache, so that two queries have been
\* logged as successes and generation ran once.
C3_Witness ==
    /\ query_call.path = "hit"
    /\ query_call.called = {}
    /\ response_quality_metrics.metrics.successful_queries = 2
    /\ response_quality_metrics.metrics.total_queries = 2

\* the run of query_documentation that this step is, if it is one: the
\* request, what the collaborators did, and the property it must have
EveryRun(Pre(_, _), Post(_, _)) ==
    \A query_request \in Requests, duration \in Durations :
        \A env \in EnvFor(cache, embed_client, query_request, clock) :
            (/\ QueryRun
             /\ query_call'.query = query_request.query
             /\ query_call'.selected_text = query_request.selected_text
             /\ Pre(query_request, env)
             /\ QueryDocumentation(query_request, env, duration))
                => Post(query_request, env)

\* the next state holds no entry under the key of the request, and the
\* entries of the other keys are those of this state
NothingCached(query_request) ==
    LET key == _generate_key(query_request.query, query_request.selected_text) IN
    /\ key \notin DOMAIN cache'
    /\ \A k \in (DOMAIN cache \cup DOMAIN cache') \ {key} :
          k \in DOMAIN cache /\ k \in DOMAIN cache' /\ cache'[k] = cache[k]

\* C17: when the vector search returns an empty sequence on a cache miss, the
\* run returns the fixed "couldn't find" answer with no citations, logs the
\* query as failed (failed_queries + 1, successful_queries unchanged), does not
\* call generation and writes nothing to the cache; so a run of the same
\* request that follows it is again a miss and calls the embedding again.
C17_NoResults ==
    /\ [][(QueryRun /\ query_call'.search \in {"empty", "failed"}) =>
            /\ query_call'.response # Absent
            /\ query_call'.response[1].answer = NoDocumentsAnswer
            /\ query_call'.response[1].citations = << >>
            /\ LoggedFailed
            /\ response_quality_metrics'.metrics.successful_queries =
                  response_quality_metrics.metrics.successful_queries
            /\ query_call'.called = {"embed", "search"}
            /\ NothingCached(Request(query_call'.query, query_call'.selected_text))]_vars
    /\ [][(/\ QueryRun
           /\ query_call.path = "no_results"
           /\ query_call'.query = query_call.query
           /\ query_call'.selected_text = query_call.selected_text)
            => "embed" \in query_call'.called]_vars

\* C17 witness: the same request found no documents twice in a row; both runs
\* called the search, both were logged as failed, and the cache is empty.
C17_Witness ==
    /\ query_call.n = 2
    /\ query_call.path = "no_results"
    /\ query_call.called = {"embed", "search"}
    /\ Len(logged) = 2
    /\ \A i \in 1..2 : ~logged[i].success
    /\ uuids = 2
    /\ response_quality_metrics.metrics.failed_queries = 2
    /\ response_quality_metrics.metrics.total_response_time = 2
    /\ cache = << >>
    /\ clock = 2

\* the url of a document is one the claim counts as valid
GoodUrl(doc) == StartsWith(doc.url, "http") \/ StartsWith(doc.url, "/")

\* the documents the search of a run returned
Retrieved(env) == search_documents(env.search[1], SearchLimit)

\* the search returned documents and generation returned a non-blank text
Answered(query_request, env) ==
    /\ env.gen # Absent
    /\ env.gen[1].kind = "text"
    /\ HasContent(env.gen[1].text)

\* C18: for any set of retrieved documents, the citations of the returned
\* response contain no document whose url does not start with "http" or "/",
\* and contain every retrieved document whose url does, also when valid and
\* invalid urls occur in the same result set (taken for the runs in which
\* generation returned an answer).
C18_CitationsFiltered ==
    [][EveryRun(Answered,
                LAMBDA query_request, env :
                   LET docs == Retrieved(env)
                       cited == {query_call'.response[1].citations[i].document_id :
                                    i \in 1..Len(query_call'.response[1].citations)}
                   IN  \A i \in 1..Len(docs) :
                          docs[i].document_id \in cited <=> GoodUrl(docs[i]))]_vars

\* no document with an invalid url is ever cited (this half holds)
C18_NoBadUrlCited ==
    [][EveryRun(Answered,
                LAMBDA query_request, env :
                   LET docs == Retrieved(env)
                       cited == {query_call'.response[1].citations[i].document_id :
                                    i \in 1..Len(query_call'.response[1].citations)}
                   IN  \A i \in 1..Len(docs) :
                          docs[i].document_id \in cited => GoodUrl(docs[i]))]_vars

\* the embedding provider of the run failed or returned nothing
EmbeddingFailed(query_request, env) ==
    /\ env.embed # Absent
    /\ embed_client # "none"
    /\ env.embed[1] \in {"raises", "empty"}

\* the embedding provider of the run returned an empty embedding
EmbeddingEmpty(query_request, env) ==
    /\ env.embed # Absent
    /\ embed_client # "none"
    /\ env.embed[1] = "empty"

\* the run ended in the Error state without search and generation
EndsInErrorAfterEmbedding(query_request, env) ==
    /\ query_call'.called = {"embed"}
    /\ query_call'.response # Absent
    /\ query_call'.response[1].answer = ApologyAnswer
    /\ query_call'.response[1].citations = << >>
    /\ LoggedFailed

\* C19: if the embedding provider fails or returns nothing for a cache-miss
\* request, the request ends in the Error state: search and generation are not
\* called, the response is the generic apology with no citations, and the
\* query is logged as failed.
C19_EmbeddingFailureIsError ==
    [][EveryRun(EmbeddingFailed, EndsInErrorAfterEmbedding)]_vars

\* an embedding that comes back empty ends the request in the Error state
\* (this case holds)
C19_EmptyEmbeddingIsError ==
    [][EveryRun(EmbeddingEmpty, EndsInErrorAfterEmbedding)]_vars

\* generation was called and failed: the provider call failed inside the
\* generation service, or the call raised
GenerationFailed(query_request, env) ==
    /\ env.gen # Absent
    /\ env.gen[1].kind \in {"provider_error", "raises"}

\* generation was called and raised into the orchestrator
GenerationRaised(query_request, env) ==
    /\ env.gen # Absent
    /\ env.gen[1].kind = "raises"

\* the run ended in the Error state and wrote nothing to the cache
EndsInErrorUncached(query_request, env) ==
    /\ query_call'.response # Absent
    /\ query_call'.response[1].answer = ApologyAnswer
    /\ query_call'.response[1].citations = << >>
    /\ "error" \in query_call'.response[1].metadata
    /\ LoggedFailed
    /\ response_quality_metrics'.metrics.successful_queries =
          response_quality_metrics.metrics.successful_queries
    /\ NothingCached(query_request)

\* C20: if answer generation fails for a request with at least one retrieved
\* document, the request ends in the Error state: the response is the generic
\* apology with no citations and an error note in metadata, the query is
\* logged as failed, and nothing is written to the cache for the request.
C20_GenerationFailureIsError ==
    [][EveryRun(GenerationFailed, EndsInErrorUncached)]_vars

\* an exception that leaves the generation call ends the request in the Error
\* state (this case holds)
C20_RaisedGenerationIsError ==
    [][EveryRun(GenerationRaised, EndsInErrorUncached)]_vars

\* a retrieved document of which the Citation model rejects a field: its url
\* is missing or malformed
Anomalous(doc) == ~CitationValid(RawCitation(doc))

\* generation returned an answer and some retrieved document is anomalous
AnsweredWithAnomaly(query_request, env) ==
    /\ Answered(query_request, env)
    /\ \E i \in 1..Len(Retrieved(env)) : Anomalous(Retrieved(env)[i])

\* C21: citation shape anomalies never escalate: when a retrieved document
\* lacks a field or has a malformed url, the run still completes on the success
\* path with the generated answer, and the citations of the other documents
\* are kept.
C21_AnomaliesNeverEscalate ==
    [][EveryRun(AnsweredWithAnomaly,
                LAMBDA query_request, env :
                   LET docs == Retrieved(env)
                       cited == {query_call'.response[1].citations[i].document_id :
                                    i \in 1..Len(query_call'.response[1].citations)}
                   IN  /\ query_call'.path = "success"
                       /\ query_call'.response[1].answer = env.gen[1].text
                       /\ \A i \in 1..Len(docs) :
                             ~Anomalous(docs[i]) => docs[i].document_id \in cited)]_vars

\* the vector search failed inside search_documents
SearchRaised(query_request, env) ==
    env.search # Absent /\ env.search[1].raises

\* C22: a failure inside the vector search does not raise into the
\* orchestrator: search_documents returns the empty sequence and the run ends
\* in the no-results branch, with the "couldn't find" answer, no error note,
\* and generation not called; it does not end in the Error state.
C22_SearchFailureIsNoResults ==
    [][(QueryRun /\ query_call'.search = "failed") =>
          /\ ~query_call'.raised
          /\ query_call'.path = "no_results"
          /\ query_call'.response # Absent
          /\ query_call'.response[1].answer = NoDocumentsAnswer
          /\ query_call'.response[1].answer # ApologyAnswer
          /\ "error" \notin query_call'.response[1].metadata
          /\ query_call'.called = {"embed", "search"}]_vars

\* C22 witness: a run whose search failed returned the "couldn't find" answer.
C22_Witness ==
    /\ query_call.search = "failed"
    /\ query_call.path = "no_results"
    /\ query_call.response # Absent
    /\ query_call.response[1].answer = NoDocumentsAnswer
    /\ query_call.response[1].metadata = {}

\* the entries a step stores: those of the next state that are new or carry
\* a new expiry
Written == {k \in DOMAIN cache' : k \notin DOMAIN cache \/ cache'[k].expiry # cache[k].expiry}

C28_WitnessStored ==
    LET key == _generate_key(query_call.query, query_call.selected_text) IN
    /\ query_call.path = "success"
    /\ key \in DOMAIN cache
    /\ cache[key].expiry = clock + ResponseTtl
    /\ cache[key].value = query_call.response[1]

-----------------------------------------------------------------------------
(* Properties of the cache *)

\* The selected_text a caller means: a left-out or null one is the empty text.
Meant(selected_text) == IF selected_text \in {Omitted, PyNone} THEN "" ELSE selected_text

Live(c, key, now) == key \in DOMAIN c /\ now <= c[key].expiry

OthersKept(c, d, key) ==
    /\ (DOMAIN d) \ {key} = (DOMAIN c) \ {key}
    /\ \A k \in (DOMAIN c) \ {key} : d[k] = c[k]

\* C4: a get(q, s) made right after set(q, v, s, ttl) with ttl > 0 returns v,
\* whatever the cache held before, and the set leaves exactly one entry for
\* (q, s), the new one, and every other entry as it was.
C4_GetAfterSet ==
    [][\A a \in CacheArgs, v \in CacheValues, t \in TtlArgs :
          (Set(a[1], v, a[2], t) /\ EffectiveTtl(t) > 0) =>
              /\ get(cache', a[1], a[2], clock').found = Some(v)
              /\ _generate_key(a[1], a[2]) \in DOMAIN cache'
              /\ OthersKept(cache, cache', _generate_key(a[1], a[2]))
              /\ size(cache') = size(cache)
                    + (IF _generate_key(a[1], a[2]) \in DOMAIN cache THEN 0 ELSE 1)]_vars

\* A set has replaced an entry while another entry was held, and the get that
\* follows at once returns one of the stored values.
C4_Witness ==
    /\ cache_call.op = "set"
    /\ cache_call.size_before = 2 /\ size(cache) = 2
    /\ \E a \in CacheArgs : get(cache, a[1], a[2], clock).found = Some(Payload("v2", << >>, 0, 0, {}))

\* C5: get(q, s) returns the stored value exactly when an entry for (q, s)
\* exists and now <= its expiry, and reports absent otherwise; the expiry of an
\* entry is the time of the last set for it plus that set's ttl, and no other
\* call changes an entry it keeps.
C5_VisibleIffNotExpired ==
    [][/\ \A a \in CacheArgs :
            (cache_call'.op = "get" /\ Get(a[1], a[2])) =>
                LET key == _generate_key(a[1], a[2]) IN
                cache_call'.found =
                    IF key \in DOMAIN cache /\ clock <= cache[key].expiry
                    THEN Some(cache[key].value) ELSE Absent
       /\ \A a \in CacheArgs, v \in CacheValues, t \in TtlArgs :
            (cache_call'.op = "set" /\ Set(a[1], v, a[2], t)) =>
                cache'[_generate_key(a[1], a[2])] =
                    [value |-> v, expiry |-> clock + (IF t = Absent THEN 3600 ELSE t[1])]
       /\ (/\ cache_call'.op = "set"
           /\ \E a \in CacheArgs, v \in CacheValues, t \in TtlArgs : Set(a[1], v, a[2], t))
            \/ (\A k \in DOMAIN cache' : k \in DOMAIN cache /\ cache'[k] = cache[k])]_vars

\* A get has returned a value at the very second its entry expires.
C5_Witness ==
    /\ cache_call.op = "get"
    /\ \E k \in DOMAIN cache :
          cache[k].expiry = clock /\ cache_call.found = Some(cache[k].value)

\* C6: a get on an entry with now > expiry removes exactly that entry and
\* reports absent, so size() drops by one; a get on a live or missing entry
\* leaves the cache as it is; the passing of time alone removes nothing, so
\* size() counts an expired entry until a call evicts it.
C6_LazyEviction ==
    [][/\ \A a \in CacheArgs :
            Get(a[1], a[2]) =>
                LET key == _generate_key(a[1], a[2]) IN
                IF key \in DOMAIN cache /\ clock > cache[key].expiry
                THEN /\ cache_call'.found = Absent
                     /\ key \notin DOMAIN cache'
                     /\ OthersKept(cache, cache', key)
                     /\ size(cache') = size(cache) - 1
                ELSE /\ cache' = cache
                     /\ size(cache') = size(cache)
       /\ (\E d \in TickSteps : Tick(d)) => cache' = cache]_vars

\* A get has evicted an expired entry and left another entry in place.
C6_Witness ==
    /\ cache_call.op = "get"
    /\ cache_call.found = Absent
    /\ cache_call.size_before = 2
    /\ size(cache) = 1

\* C7: cleanup_expired removes exactly the entries with now > expiry, leaves
\* the others unchanged, and returns the number removed, which is size()
\* before minus size() after; a second cleanup at the same time returns 0.
C7_CleanupExact ==
    [][CleanupExpired =>
          /\ DOMAIN cache' = {k \in DOMAIN cache : clock <= cache[k].expiry}
          /\ \A k \in DOMAIN cache' : cache'[k] = cache[k]
          /\ cache_call'.removed = Cardinality({k \in DOMAIN cache : clock > cache[k].expiry})
          /\ cache_call'.removed = size(cache) - size(cache')
          /\ cleanup_expired(cache', clock').removed = 0]_vars

\* A cleanup has removed two expired entries at once.
C7_Witness ==
    /\ cache_call.op = "cleanup_expired"
    /\ cache_call.removed = 2

\* A cleanup has removed an expired entry and kept a live one.
C7_WitnessKeepsLive ==
    /\ cache_call.op = "cleanup_expired"
    /\ cache_call.removed = 1
    /\ size(cache) = 1

\* C8: for one query and two different selected_text values s1 # s2 the
\* entries are independent: a set, a delete or an expiring get for (q, s1)
\* changes neither the entry of (q, s2) nor what get(q, s2) returns.
C8_SelectedTextIndependent ==
    [][\A a \in CacheArgs, b \in CacheArgs :
          (a[1] = b[1] /\ Meant(a[2]) # Meant(b[2])) =>
              /\ \A v \in CacheValues, t \in TtlArgs :
                    Set(a[1], v, a[2], t) =>
                        get(cache', b[1], b[2], clock').found = get(cache, b[1], b[2], clock).found
              /\ (Delete(a[1], a[2]) \/ Get(a[1], a[2])) =>
                    get(cache', b[1], b[2], clock').found = get(cache, b[1], b[2], clock).found]_vars

\* The same statement for selected_text values that are texts (no null).
C8_TextsIndependent ==
    [][\A a \in CacheArgs, b \in CacheArgs :
          (a[1] = b[1] /\ a[2] # b[2] /\ {a[2], b[2]} \cap {Omitted, PyNone} = {}) =>
              /\ \A v \in CacheValues, t \in TtlArgs :
                    Set(a[1], v, a[2], t) =>
                        get(cache', b[1], b[2], clock').found = get(cache, b[1], b[2], clock).found
              /\ (Delete(a[1], a[2]) \/ Get(a[1], a[2])) =>
                    get(cache', b[1], b[2], clock').found = get(cache, b[1], b[2], clock).found]_vars

\* C9: an absent selected_text, left out or null, is the empty text: a value
\* stored for (q, absent) is returned by get(q, "") and a value stored for
\* (q, "") is returned by get(q, absent).
C9_AbsentIsEmpty ==
    [][\A a \in CacheArgs, b \in CacheArgs, v \in CacheValues, t \in TtlArgs :
          (a[1] = b[1] /\ Meant(a[2]) = "" /\ Meant(b[2]) = "" /\ Set(a[1], v, a[2], t)) =>
              get(cache', b[1], b[2], clock').found = Some(v)]_vars

\* The same statement for a selected_text that is left out (not null).
C9_OmittedIsEmpty ==
    [][\A a \in CacheArgs, b \in CacheArgs, v \in CacheValues, t \in TtlArgs :
          (a[1] = b[1] /\ {a[2], b[2]} \subseteq {Omitted, ""} /\ Set(a[1], v, a[2], t)) =>
              get(cache', b[1], b[2], clock').found = Some(v)]_vars

-----------------------------------------------------------------------------
(* Properties of the rate limiter *)

\* The identity's window is empty when its i-th call is made: every earlier
\* call that was recorded is 60 seconds old or older.
WindowEmptyAt(h, i) ==
    \A j \in 1..(i - 1) : h[j].allowed => h[i].at - h[j].at >= 60

\* C10: with limit N, counting from a call made on an empty window, the
\* calls made less than 60 seconds after it are allowed up to the N-th and
\* the (N+1)-th is denied; a call made when 60 seconds have elapsed since the
\* earliest recorded call is allowed again.
C10_Boundary ==
    /\ [](\A id \in Identities :
            LET h == history[id] IN
            \A i \in 1..Len(h), k \in 1..Len(h) :
                (i <= k /\ WindowEmptyAt(h, i) /\ h[k].at - h[i].at < 60) =>
                    /\ (k - i + 1 <= requests_per_minute => h[k].allowed)
                    /\ (k - i + 1 = requests_per_minute + 1 => ~h[k].allowed))
    /\ [][\A id \in Identities :
            (IsAllowed(id) /\ requests[id] # << >> /\ clock - requests[id][1] >= 60)
                => limiter_call'.allowed]_vars

\* N calls were allowed, the next one inside the window was denied, and a call
\* made 60 seconds or more after the first was allowed.
C10_Witness ==
    \E id \in Identities :
        LET h == history[id]
            n == requests_per_minute
        IN  /\ Len(h) = n + 2
            /\ \A i \in 1..n : h[i].allowed
            /\ ~h[n + 1].allowed /\ h[n + 1].at - h[1].at < 60
            /\ h[n + 2].allowed /\ h[n + 2].at - h[1].at >= 60
            /\ n = MaxLimit

\* the calls of history h that returned true in the trailing window ending at t
AllowedInWindow(h, t) ==
    {j \in 1..Len(h) : h[j].allowed /\ h[j].at <= t /\ t - h[j].at < Window}

\* C11: the limiter is a sliding window. For every identity and every instant
\* t at which a call was made, at most N calls returned true in the trailing
\* 60 seconds ending at t (the instants u with t - u < 60), also when those
\* calls lie on both sides of a clock-minute boundary.
C11_SlidingWindow ==
    \A id \in Identities :
        \A i \in 1..Len(history[id]) :
            Cardinality(AllowedInWindow(history[id], history[id][i].at))
                <= requests_per_minute

\* C11 witness: with N = MaxLimit, N calls were allowed on both sides of a
\* clock-minute boundary, less than 60 seconds apart, and the next call in the
\* same window was denied.
C11_Witness ==
    \E id \in Identities :
        LET h == history[id] IN
        /\ requests_per_minute = MaxLimit
        /\ Len(h) = MaxLimit + 1
        /\ \A i \in 1..MaxLimit : h[i].allowed
        /\ h[1].at \div Window # h[MaxLimit].at \div Window
        /\ h[MaxLimit].at - h[1].at < Window
        /\ ~h[MaxLimit + 1].allowed
        /\ h[MaxLimit + 1].at - h[1].at < Window

\* the timestamps the list of an identity must hold after a call at time
\* last: those of the allowed calls of h that are less than 60 seconds old
Recorded(h, last) ==
    LET stamps == [j \in 1..Len(h) |-> h[j].at]
        Kept(j) == h[j].allowed /\ last - h[j].at < Window
        RECURSIVE From(_)
        From(j) == IF j > Len(h) THEN << >>
                   ELSE IF Kept(j) THEN <<stamps[j]>> \o From(j + 1)
                   ELSE From(j + 1)
    IN  From(1)

\* C12: under concurrent is_allowed calls from several threads, the
\* prune-check-append sequence of a call is atomic: at most one thread is
\* between its prune and its append; for every interleaving at most N calls
\* are allowed in any trailing 60 seconds; and whenever no call is in progress
\* the list of an identity holds exactly the timestamps of its allowed calls
\* that the last call's prune kept (none is lost).
C12_AtomicUnderThreads ==
    /\ Cardinality({th \in Threads : threads[th].pc # "idle"}) <= 1
    /\ \A id \in Identities :
          /\ \A i \in 1..Len(history[id]) :
                Cardinality(AllowedInWindow(history[id], history[id][i].at))
                    <= requests_per_minute
          /\ (lock = "free" /\ history[id] # << >>) =>
                requests[id] =
                    Recorded(history[id], history[id][Len(history[id])].at)

\* C12 witness: both threads have completed calls for the same identity, the
\* clock did not move between them, N were allowed and the next was denied.
C12_Witness ==
    \E id \in Identities :
        LET h == history[id] IN
        /\ lock = "free"
        /\ requests_per_minute = MaxLimit
        /\ Len(h) = MaxLimit + 1
        /\ \A i \in 1..MaxLimit : h[i].allowed /\ h[i].at = h[1].at
        /\ \E i, j \in 1..MaxLimit : h[i].thread # h[j].thread
        /\ ~h[MaxLimit + 1].allowed
        /\ Len(requests[id]) = MaxLimit

-----------------------------------------------------------------------------
(* Properties of the metrics tracker *)

\* C13: each log_query_end(token, success, response) call adds 1 to
\* total_queries and the elapsed time to the cumulative time; with success it
\* adds 1 to successful_queries and the citation count of the response (if one
\* is given) to the cumulative citations and leaves failed_queries alone;
\* without success it adds 1 to failed_queries and leaves successful_queries
\* and the cumulative citations alone, also when a response is given.
C13_LogQueryEndCounts ==
    [][\A start_time \in LogStarts, success \in BOOLEAN, response \in MetricResponses :
        LogQueryEnd(start_time, success, response) =>
            LET old == response_quality_metrics.metrics
                new == response_quality_metrics'.metrics
                cited == IF response = Absent THEN 0 ELSE response[1]
            IN  /\ new.total_queries = old.total_queries + 1
                /\ new.total_response_time = old.total_response_time + (clock - start_time)
                /\ success =>
                      /\ new.successful_queries = old.successful_queries + 1
                      /\ new.total_citations = old.total_citations + cited
                      /\ new.failed_queries = old.failed_queries
                /\ ~success =>
                      /\ new.failed_queries = old.failed_queries + 1
                      /\ new.successful_queries = old.successful_queries
                      /\ new.total_citations = old.total_citations]_vars

\* C13 witness: a failed call that was given a response with citations, made
\* after a successful one, left the cumulative citations as they were.
C13_Witness ==
    /\ Len(logged) = 2
    /\ logged[1].success /\ logged[1].response = Some(2) /\ logged[1].elapsed > 0
    /\ ~logged[2].success /\ logged[2].response = Some(1)
    /\ response_quality_metrics.metrics.total_citations = 2
    /\ response_quality_metrics.metrics.failed_queries = 1
    /\ response_quality_metrics.metrics.total_queries = 2

\* the sum of a sequence of numbers
RECURSIVE SumSeq(_)
SumSeq(s) == IF s = << >> THEN 0 ELSE s[1] + SumSeq(SubSeq(s, 2, Len(s)))

\* the durations and the citation counts of the calls of a history
Elapsed(calls) == [i \in 1..Len(calls) |-> calls[i].elapsed]

Cited(calls) ==
    [i \in 1..Len(calls) |->
        IF calls[i].response = Absent THEN 0 ELSE calls[i].response[1]]

\* the fraction a equals n / d
IsQuotient(a, n, d) == a.den > 0 /\ a.num * d = n * a.den

\* C14: starting from reset metrics, after k >= 1 log_query_end calls that were
\* all successful, avg_response_time is the sum of their durations over k and
\* avg_citations_per_response is the sum of their citation counts over k; as
\* long as successful_queries is 0 (no call yet, or failed calls only) both
\* averages are 0, and no average is ever a division by zero.
C14_Averages ==
    LET m == response_quality_metrics.metrics
        k == Len(logged)
    IN  /\ m.avg_response_time.den > 0
        /\ m.avg_citations_per_response.den > 0
        /\ (k >= 1 /\ \A i \in 1..k : logged[i].success) =>
              /\ IsQuotient(m.avg_response_time, SumSeq(Elapsed(logged)), k)
              /\ IsQuotient(m.avg_citations_per_response, SumSeq(Cited(logged)), k)
        /\ m.successful_queries = 0 =>
              /\ m.avg_response_time.num = 0
              /\ m.avg_citations_per_response.num = 0

\* C14 witness: three successful calls of different durations and citation
\* counts after a reset, so that the averages are 2/3 and 5/3.
C14_Witness ==
    /\ Len(logged) = 3
    /\ \A i \in 1..3 : logged[i].success
    /\ SumSeq(Elapsed(logged)) = 2
    /\ SumSeq(Cited(logged)) = 5
    /\ IsQuotient(response_quality_metrics.metrics.avg_response_time, 2, 3)
    /\ IsQuotient(response_quality_metrics.metrics.avg_citations_per_response, 5, 3)

\* C14 witness: failed calls only, with time spent, and both averages are 0.
C14_WitnessNoSuccess ==
    /\ Len(logged) = 2
    /\ \A i \in 1..2 : ~logged[i].success
    /\ response_quality_metrics.metrics.total_response_time > 0
    /\ response_quality_metrics.metrics.avg_response_time.num = 0

\* the calls of a history that were successful
Successes(calls) == SelectSeq(calls, LAMBDA call : call.success)

\* C15: metrics updates of concurrently running requests are serialized. When
\* the log_query_end calls issued by the threads have all completed,
\* total_queries is their number n, successful_queries + failed_queries = n,
\* the cumulative time and the cumulative citations are the sums of what the
\* calls contributed, and the averages are those totals over
\* successful_queries: no update is lost, whatever the interleaving.
C15_NoLostUpdate ==
    LET m == response_quality_metrics.metrics
        n == Len(logged)
    IN  (\A th \in Threads : threads[th].pc \in {"idle", "returned"}) =>
            /\ m.total_queries = n
            /\ m.successful_queries = Len(Successes(logged))
            /\ m.successful_queries + m.failed_queries = n
            /\ m.total_response_time = SumSeq(Elapsed(logged))
            /\ m.total_citations = SumSeq(Cited(Successes(logged)))
            /\ Len(response_quality_metrics.response_times) = n
            /\ IsQuotient(m.avg_response_time,
                          IF m.successful_queries > 0 THEN m.total_response_time ELSE 0,
                          IF m.successful_queries > 0 THEN m.successful_queries ELSE 1)
            /\ IsQuotient(m.avg_citations_per_response,
                          IF m.successful_queries > 0 THEN m.total_citations ELSE 0,
                          IF m.successful_queries > 0 THEN m.successful_queries ELSE 1)

-----------------------------------------------------------------------------
(* Properties of the cache under threads *)

\* C16: each get, set and delete call appears atomic to the calls of other
\* threads on the same fingerprint: in every interleaving no call fails, and
\* every value a get returns is a value that an earlier set stored under that
\* fingerprint.
C16_CallsAtomic ==
    \A i \in 1..Len(thread_log) :
        /\ ~thread_log[i].raised
        /\ (thread_log[i].op = "get" /\ thread_log[i].value # Absent) =>
              \E j \in 1..(i - 1) :
                  /\ thread_log[j].op = "set"
                  /\ thread_log[j].key = thread_log[i].key
                  /\ thread_log[j].value = thread_log[i].value

\* every value a get returns was stored by an earlier set (this part holds)
C16_NoTornRead ==
    \A i \in 1..Len(thread_log) :
        (thread_log[i].op = "get" /\ thread_log[i].value # Absent) =>
            \E j \in 1..(i - 1) :
                /\ thread_log[j].op = "set"
                /\ thread_log[j].key = thread_log[i].key
                /\ thread_log[j].value = thread_log[i].value

-----------------------------------------------------------------------------
(* validate_response_accuracy applied to a response and a source list *)

\* all sequences over S of length at most n
SeqsUpTo(S, n) == UNION {[1..k -> S] : k \in 0..n}

MaxCited == 2
MaxSources == 2

\* the document ids of the citations; no source document is "d3"
CitedIds == {"d1", "d2", "d3"}

\* source documents, one of them without a document_id
SourceDocs ==
    {[document_id |-> "d1", title |-> "ROS 2"], [document_id |-> "d2", title |-> "Nav2"],
     [title |-> "Page"]}

\* a QueryResponse holds an answer of at least one character
Answers == {"ROS 2 is...", " ", "   "}

ValidationInputs ==
    {[response |-> [answer |-> a, citations |-> c], source_context |-> s,
      report |-> Absent] :
        a \in Answers,
        c \in SeqsUpTo({[document_id |-> id] : id \in CitedIds}, MaxCited),
        s \in SeqsUpTo(SourceDocs, MaxSources)}

ValidateResponseAccuracy ==
    /\ validation.report = Absent
    /\ validation' =
          [validation EXCEPT
              !.report = Some(validate_response_accuracy(validation.response,
                                                         validation.source_context))]
    /\ UNCHANGED <<clock, ticks, cacheVars, limiterVars, ragVars, threadVars,
                   snapshot, endpoint_call, plain>>

InitAccuracy ==
    /\ clock = 0
    /\ ticks = 0
    /\ cache = << >>
    /\ cache_call = NoCall
    /\ requests_per_minute = rate_limit_per_minute
    /\ requests = [id \in Identities |-> << >>]
    /\ limiter_call = NoLimiterCall
    /\ history = [id \in Identities |-> << >>]
    /\ response_quality_metrics = ZeroMetrics
    /\ embed_client = "none"
    /\ uuids = 0
    /\ query_call = NoQuery
    /\ served = [r \in Requests |-> Absent]
    /\ logged = << >>
    /\ lock = "free"
    /\ threads = [th \in Threads |-> Idle]
    /\ thread_log = << >>
    /\ validation \in ValidationInputs
    /\ snapshot = Absent
    /\ endpoint_call = NoRequest
    /\ plain = NoPlain

NextAccuracy == ValidateResponseAccuracy

SpecAccuracy == InitAccuracy /\ [][NextAccuracy]_vars

-----------------------------------------------------------------------------
(* Properties of validate_response_accuracy *)

\* the document_ids of the supplied source documents
SourceIds(source_context) ==
    {source_context[i].document_id :
        i \in {j \in 1..Len(source_context) : "document_id" \in DOMAIN source_context[j]}}

\* at least one citation's document_id is not among them
CitesOutside(response, source_context) ==
    \E i \in 1..Len(response.citations) :
        response.citations[i].document_id \notin SourceIds(source_context)

\* citations are present and the answer is blank
BlankWithCitations(response) ==
    response.citations # << >> /\ ~HasContent(response.answer)

\* the report says inaccurate, with confidence 0.5, or 0.0 under the blank rule
ReportedOutside(v) ==
    /\ ~v.report[1].is_accurate
    /\ v.report[1].confidence_score = IF BlankWithCitations(v.response) THEN 0 ELSE 50

\* C24: validate_response_accuracy reports the response as inaccurate
\* (confidence 0.5, or 0.0 when the blank-answer rule applies) whenever at least
\* one citation's document_id is not among the document_ids of the supplied
\* source documents, for every response and every source list, the empty
\* source list and documents without a document_id included.
C24_OutsideIsInaccurate ==
    (validation.report # Absent
        /\ CitesOutside(validation.response, validation.source_context))
    => ReportedOutside(validation)

\* the same for the source lists that are not empty (this case holds)
C24_OutsideOfNonEmptySources ==
    (validation.report # Absent
        /\ validation.source_context # << >>
        /\ CitesOutside(validation.response, validation.source_context))
    => ReportedOutside(validation)

\* C25: the report is inaccurate with confidence 0.0 whenever citations are
\* present and the answer is blank, whatever the membership check found; it is
\* accurate with confidence 1.0 when neither that rule applies nor a citation
\* lies outside the sources; the confidence is one of 0.0, 0.5, 1.0 and is 1.0
\* exactly when the report is accurate.
C25_BlankAnswerRule ==
    validation.report # Absent =>
        LET report == validation.report[1] IN
        /\ BlankWithCitations(validation.response) =>
              ~report.is_accurate /\ report.confidence_score = 0
        /\ (/\ ~BlankWithCitations(validation.response)
            /\ ~CitesOutside(validation.response, validation.source_context)) =>
              report.is_accurate /\ report.confidence_score = 100
        /\ report.confidence_score \in {0, 50, 100}
        /\ report.confidence_score = 100 <=> report.is_accurate

\* C25 witness: a blank answer whose citation lies outside the sources: both
\* rules apply, and the confidence is 0.0 with the two notes.
C25_Witness ==
    /\ validation.report # Absent
    /\ BlankWithCitations(validation.response)
    /\ validation.source_context # << >>
    /\ CitesOutside(validation.response, validation.source_context)
    /\ ~validation.report[1].is_accurate
    /\ validation.report[1].confidence_score = 0
    /\ Len(validation.report[1].validation_notes) = 2

\* C25 witness: the citations are all among the sources and the answer has
\* content.
C25_WitnessAccurate ==
    /\ validation.report # Absent
    /\ Len(validation.response.citations) = 2
    /\ validation.report[1].is_accurate
    /\ validation.report[1].confidence_score = 100
    /\ validation.report[1].sources_used # {}

-----------------------------------------------------------------------------
(* The metrics tracker and a caller that keeps what get_metrics returned *)

\* snapshot = tracker.get_metrics()
GetMetrics ==
    /\ snapshot' = Some(get_metrics(response_quality_metrics))
    /\ UNCHANGED <<clock, ticks, cacheVars, limiterVars, ragVars, threadVars,
                   validation, endpoint_call, plain>>

\* the fields a caller overwrites
SnapshotFields == {"total_queries", "total_citations"}

\* snapshot[field] = -1, done by the caller on the dict it holds
MutateSnapshot(field) ==
    /\ snapshot # Absent
    /\ snapshot[1].fields[field] # -1
    /\ snapshot' = Some([snapshot[1] EXCEPT !.fields[field] = -1])
    /\ response_quality_metrics' =
          IF snapshot[1].shared
          THEN [response_quality_metrics EXCEPT !.metrics[field] = -1]
          ELSE response_quality_metrics
    /\ UNCHANGED <<clock, ticks, cacheVars, limiterVars, threadVars, validation,
                   endpoint_call, plain, embed_client, uuids, query_call, served, logged>>

SnapshotLogStep ==
    \E success \in BOOLEAN : LogQueryEnd(clock, success, Some(1))

SnapshotMutateStep == \E field \in SnapshotFields : MutateSnapshot(field)

NextSnapshot ==
    \/ SnapshotLogStep
    \/ ResetMetrics
    \/ GetMetrics
    \/ SnapshotMutateStep
    \/ CacheTickStep

SpecSnapshot == Init /\ [][NextSnapshot]_vars

-----------------------------------------------------------------------------
(* Properties of get_metrics *)

\* C26: get_metrics returns a snapshot, not a live reference: a caller's write
\* to a field of the returned dict leaves the tracker's state as it was, so
\* that a later get_metrics returns what the log_query_end calls since the last
\* reset amount to; and a log_query_end or reset_metrics call leaves a dict
\* returned earlier as it was.
C26_SnapshotNotLive ==
    /\ [][SnapshotMutateStep =>
             response_quality_metrics' = response_quality_metrics]_vars
    /\ [][(SnapshotLogStep \/ ResetMetrics) => snapshot' = snapshot]_vars
    /\ [][GetMetrics =>
             /\ snapshot'[1].fields = response_quality_metrics.metrics
             /\ snapshot'[1].fields.total_queries = Len(logged)
             /\ snapshot'[1].fields.total_citations =
                   SumSeq(Cited(Successes(logged)))]_vars

\* C26 witness: a snapshot taken after one successful query was overwritten by
\* its holder, and a second query was logged after that: the tracker counts
\* two queries and two citations, the snapshot still shows what was written
\* into it.
C26_Witness ==
    /\ snapshot # Absent
    /\ snapshot[1].fields.total_queries = -1
    /\ snapshot[1].fields.successful_queries = 1
    /\ snapshot[1].fields.total_citations = 1
    /\ response_quality_metrics.metrics.total_queries = 2
    /\ response_quality_metrics.metrics.total_citations = 2
    /\ Len(logged) = 2

\* C26 witness: reset_metrics after a snapshot leaves the snapshot's counts.
C26_WitnessReset ==
    /\ snapshot # Absent
    /\ snapshot[1].fields.total_queries = 2
    /\ response_quality_metrics = ZeroMetrics
    /\ logged = << >>

-----------------------------------------------------------------------------
(* Properties of the rate limiter: what a call leaves stored *)

\* the timestamps of a list that are at most 60 seconds old at time now
NotOlderThanWindow(stamps, now) ==
    SelectSeq(stamps, LAMBDA timestamp : now - timestamp <= Window)

\* C29: a denied is_allowed(id) call records nothing: the list stored for id
\* after it is the list before it without the timestamps older than 60
\* seconds, and at every later moment of the following minute a call is
\* allowed exactly if it would have been allowed without the denied call.
C29_DeniedRecordsNothing ==
    [][\A id \in Identities :
          (IsAllowed(id) /\ ~limiter_call'.allowed) =>
              /\ requests'[id] = NotOlderThanWindow(requests[id], clock)
              /\ \A t \in clock..(clock + Window) :
                    is_allowed(requests'[id], requests_per_minute, t).allowed
                        = is_allowed(requests[id], requests_per_minute, t).allowed]_vars

\* C29 witness: an allowed call, two denied calls after it, and a call that is
\* allowed 60 seconds after the first one: the denied calls did not move that
\* moment.
C29_Witness ==
    \E id \in Identities :
        /\ Len(history[id]) = 4
        /\ history[id][1].allowed
        /\ ~history[id][2].allowed
        /\ ~history[id][3].allowed
        /\ history[id][3].at > history[id][1].at
        /\ history[id][4].allowed
        /\ history[id][4].at = history[id][1].at + Window

\* the number of timestamps of a list that are less than 60 seconds old
InWindowCount(stamps, now) ==
    Cardinality({i \in 1..Len(stamps) : now - stamps[i] < Window})

\* C30: after every is_allowed(id) call, every timestamp stored for id is less
\* than 60 seconds older than the clock value of the call, and at most
\* requests_per_minute timestamps are stored for id; the call is allowed
\* exactly if fewer than requests_per_minute of the timestamps stored before it
\* lie in the window.
C30_StoredWithinWindow ==
    [][\A id \in Identities :
          IsAllowed(id) =>
              /\ \A i \in 1..Len(requests'[id]) : clock - requests'[id][i] < Window
              /\ Len(requests'[id]) <= requests_per_minute
              /\ limiter_call'.allowed <=>
                    InWindowCount(requests[id], clock) < requests_per_minute]_vars

\* C30 witness: a call that found the list full of timestamps that had all
\* left the window: it was allowed, and its own timestamp is all that is stored.
C30_Witness ==
    \E id \in Identities :
        /\ limiter_call.op = "is_allowed"
        /\ limiter_call.id = id
        /\ limiter_call.allowed
        /\ Len(history[id]) = requests_per_minute + 1
        /\ \A i \in 1..Len(history[id]) : history[id][i].allowed
        /\ requests[id] = <<clock>>
        /\ clock >= Window

-----------------------------------------------------------------------------
(* Properties of POST /query *)

\* a step that is one POST /query
PostRun == endpoint_call'.n = endpoint_call.n + 1

\* the query is non-empty after trimming and at most 2000 characters long
QueryAcceptable(query) == HasContent(query) /\ Len(query) <= MaxQueryLength

\* the step left the cache and the metrics as they were
OrchestratorUntouched ==
    /\ cache' = cache
    /\ response_quality_metrics' = response_quality_metrics
    /\ logged' = logged
    /\ query_call' = query_call

\* C27: the endpoint calls the orchestrator only for requests whose query is
\* non-empty after trimming and at most 2000 characters long; every other
\* request is rejected with a 400 before the orchestrator runs, and changes
\* neither the cache nor the metrics.
C27_RejectedWith400 ==
    [][PostRun =>
          /\ endpoint_call'.ran => QueryAcceptable(endpoint_call'.query)
          /\ ~QueryAcceptable(endpoint_call'.query) =>
                /\ ~endpoint_call'.ran
                /\ endpoint_call'.status = "400"
                /\ OrchestratorUntouched]_vars

\* every other request is rejected, with a 400 or a 422, before the
\* orchestrator runs (this part holds)
C27_RejectedBeforeOrchestrator ==
    [][PostRun =>
          /\ endpoint_call'.ran <=> QueryAcceptable(endpoint_call'.query)
          /\ ~QueryAcceptable(endpoint_call'.query) =>
                /\ endpoint_call'.status \in {"400", "422"}
                /\ OrchestratorUntouched]_vars

-----------------------------------------------------------------------------
(* Properties of the orchestrator under threads *)

\* C23: every response returned by query_documentation carries a query_id
\* generated for that return: no two returned responses share a query_id,
\* the responses of two cache hits on the same entry that are served by
\* requests running at the same time included.
C23_FreshQueryIds ==
    /\ \A i, j \in 1..Len(thread_log) :
          i # j => thread_log[i].response.query_id # thread_log[j].response.query_id
    /\ \A i \in 1..Len(thread_log) :
          query_call.response # Absent =>
              thread_log[i].response.query_id # query_call.response[1].query_id

\* for requests served one at a time, every return carries an identifier
\* drawn in that run (this case holds)
C23_FreshWhenServedInTurn ==
    [][QueryRun =>
          /\ query_call'.response[1].query_id > uuids
          /\ query_call'.response[1].query_id <= uuids'
          /\ query_call.response # Absent =>
                query_call'.response[1].query_id # query_call.response[1].query_id]_vars

-----------------------------------------------------------------------------
(* Properties of the metrics: what the counters amount to *)

\* C33: every query_documentation call updates the metrics exactly once: on
\* each of its paths (cache hit, no results, success, error) log_query_end is
\* called one time, so that with requests served one after the other
\* total_queries is the number of query_documentation calls completed.
C33_LoggedOncePerCall ==
    /\ [][QueryRun =>
             /\ Len(logged') = Len(logged) + 1
             /\ response_quality_metrics'.metrics.total_queries =
                   response_quality_metrics.metrics.total_queries + 1
             /\ logged'[Len(logged')].success <=> query_call'.path \in {"hit", "success"}]_vars
    /\ [](response_quality_metrics.metrics.total_queries = query_call.n)

\* C33 witness: two calls completed, the second in the Error state after a
\* first one on the success path; two queries are counted.
C33_Witness ==
    /\ query_call.n = 2
    /\ query_call.path = "error"
    /\ Len(logged) = 2
    /\ logged[1].success
    /\ ~logged[2].success
    /\ response_quality_metrics.metrics.total_queries = 2

\* the counters of the tracker
Counters ==
    {"total_queries", "successful_queries", "failed_queries", "total_response_time",
     "total_citations"}

\* C35: in every state reached by log_query_end and reset_metrics calls made
\* one after the other, total_queries = successful_queries + failed_queries
\* and no counter is negative; no counter decreases except through
\* reset_metrics, which returns every counter and both averages to zero.
C35_CountersConsistent ==
    /\ [](LET m == response_quality_metrics.metrics IN
          /\ m.total_queries = m.successful_queries + m.failed_queries
          /\ \A c \in Counters : m[c] >= 0)
    /\ [][MetricsLogStep =>
             \A c \in Counters :
                response_quality_metrics'.metrics[c] >= response_quality_metrics.metrics[c]]_vars
    /\ [][ResetMetrics =>
             /\ \A c \in Counters : response_quality_metrics'.metrics[c] = 0
             /\ response_quality_metrics'.metrics.avg_response_time.num = 0
             /\ response_quality_metrics'.metrics.avg_citations_per_response.num = 0
             /\ response_quality_metrics'.response_times = << >>]_vars

\* C35 witness: successes and a failure have been counted, with time spent
\* and citations.
C35_Witness ==
    /\ response_quality_metrics.metrics.total_queries = 3
    /\ response_quality_metrics.metrics.successful_queries = 2
    /\ response_quality_metrics.metrics.failed_queries = 1
    /\ response_quality_metrics.metrics.total_response_time > 0
    /\ response_quality_metrics.metrics.total_citations > 0

\* C38: in any sequence of log_query_end calls that mixes successes and
\* failures, avg_response_time times successful_queries is the sum of the
\* durations of the successful calls only.
C38_AverageOfSuccessesOnly ==
    LET m == response_quality_metrics.metrics IN
    m.successful_queries > 0 =>
        IsQuotient(m.avg_response_time, SumSeq(Elapsed(Successes(logged))),
                   m.successful_queries)

\* avg_response_time times successful_queries is the sum of the durations of
\* all calls, failed ones included (this is what holds)
C38_AverageOfAllDurations ==
    LET m == response_quality_metrics.metrics IN
    m.successful_queries > 0 =>
        IsQuotient(m.avg_response_time, SumSeq(Elapsed(logged)), m.successful_queries)

-----------------------------------------------------------------------------
(* Properties of the orchestrator: what a run leaves in the cache *)

\* C36: serving a cache hit leaves the cache unchanged: the stored payload of
\* (query, selected_text), its stored query_id and timestamp included, and the
\* expiry of the entry are the same before and after the hit.
C36_HitLeavesCacheUnchanged ==
    [][(QueryRun /\ query_call'.path = "hit") => cache' = cache]_vars

\* a hit keeps the entries, their expiries, answers and citations: an entry
\* written at t is served until t + 7200 however many hits occur (this much
\* holds)
C36_HitKeepsExpiryAndContent ==
    [][(QueryRun /\ query_call'.path = "hit") =>
          /\ DOMAIN cache' = DOMAIN cache
          /\ \A k \in DOMAIN cache :
                /\ cache'[k].expiry = cache[k].expiry
                /\ cache'[k].value.answer = cache[k].value.answer
                /\ cache'[k].value.citations = cache[k].value.citations]_vars

\* C37 as stated: a run that ends in the Error state leaves the cache
\* unchanged: no entry is added, overwritten or removed.
C37_ErrorLeavesCacheUnchanged ==
    [][(QueryRun /\ query_call'.path = "error") => cache' = cache]_vars

\* C37, amended: a run that ends in the Error state adds and overwrites no
\* entry, and removes none but the expired entry of its own key, which the
\* cache probe evicts; the other entries stay as they are.  The cache then
\* holds nothing under the key, so that the same request issued next misses
\* and runs the pipeline from the embedding step.
C37_ErrorStoresNothing ==
    /\ [][(QueryRun /\ query_call'.path = "error") =>
              LET key == _generate_key(query_call'.query, query_call'.selected_text) IN
              /\ DOMAIN cache' = DOMAIN cache \ {key}
              /\ \A k \in DOMAIN cache' : cache'[k] = cache[k]
              /\ key \in DOMAIN cache => clock > cache[key].expiry]_vars
    /\ [][(/\ QueryRun
           /\ query_call.path = "error"
           /\ query_call'.query = query_call.query
           /\ query_call'.selected_text = query_call.selected_text) =>
              /\ query_call'.path # "hit"
              /\ "embed" \in query_call'.called]_vars

\* C37 witness: a run ended in the Error state, and the entry that an earlier
\* run stored under another key is still there.
C37_Witness ==
    /\ query_call.n = 2
    /\ query_call.path = "error"
    /\ cache # << >>
    /\ _generate_key(query_call.query, query_call.selected_text) \notin DOMAIN cache

\* C37 witness: a run ended in the Error state for a request whose stored
\* response had expired; the probe evicted it.
C37_WitnessEvicted ==
    /\ query_call.n = 2
    /\ query_call.path = "error"
    /\ served[Request(query_call.query, query_call.selected_text)] # Absent
    /\ cache = << >>

-----------------------------------------------------------------------------
(* Properties of the orchestrator: the citations of a success *)

\* a is b with some of its elements left out
RECURSIVE IsSubsequence(_, _)
IsSubsequence(a, b) ==
    IF a = << >> THEN TRUE
    ELSE IF b = << >> THEN FALSE
    ELSE IF Head(a) = Head(b) THEN IsSubsequence(Tail(a), Tail(b))
    ELSE IsSubsequence(a, Tail(b))

DocumentIds(s) == [i \in 1..Len(s) |-> s[i].document_id]

\* C39: on the success path the citations of the response are a subsequence
\* of the retrieved documents in retrieval order: every citation's
\* document_id is the id of a retrieved document, the citations keep the
\* order the search returned, a document is cited no more often than it was
\* retrieved, and there are at most 5 citations.
C39_CitationsFollowRetrieval ==
    [][\A query_request \in Requests :
          \A env \in CitationEnvFor(cache, query_request, clock) :
              (/\ QueryRun
               /\ query_call'.path = "success"
               /\ query_call'.query = query_request.query
               /\ query_call'.selected_text = query_request.selected_text
               /\ query_call'.search = SearchResult(env)
               /\ QueryDocumentation(query_request, env, 1))
                 => /\ IsSubsequence(DocumentIds(query_call'.response[1].citations),
                                     DocumentIds(Retrieved(env)))
                    /\ IsSubsequence(DocumentIds(query_call'.response[1].citations),
                                     [i \in 1..Len(env.search[1].hits) |->
                                         env.search[1].hits[i].id])
                    /\ Len(query_call'.response[1].citations) <= SearchLimit]_vars

\* C39 witness: the store held six matching points; the response of the
\* success path cites the first five, in the order of the search.
C39_Witness ==
    /\ query_call.path = "success"
    /\ DocumentIds(query_call.response[1].citations) = Take(DocIds, SearchLimit)

\* C39 witness: a point retrieved twice is cited twice.
C39_WitnessTwice ==
    /\ query_call.path = "success"
    /\ DocumentIds(query_call.response[1].citations) = <<"doc1", "doc1">>

-----------------------------------------------------------------------------
(* Properties of the cache: the key of a pair *)

HasColon(text) == \E i \in 1..Len(text) : SubSeq(text, i, i) = ":"

\* C34: distinct (query, selected_text) pairs never share a cache entry: for
\* all texts, those that contain the separator "::" included, a set for one
\* pair does not change what get returns for another pair, and the two pairs
\* have two keys.
C34_DistinctPairsDistinctEntries ==
    [][\A a \in SeparatorArgs, b \in SeparatorArgs :
          a # b =>
              /\ _generate_key(a[1], a[2]) # _generate_key(b[1], b[2])
              /\ \A v \in CacheValues, t \in TtlArgs :
                    Set(a[1], v, a[2], t) =>
                        get(cache', b[1], b[2], clock').found =
                            get(cache, b[1], b[2], clock).found]_vars

\* the same statement for pairs of texts without a colon (this much holds)
C34_ColonFreePairsDistinctEntries ==
    [][\A a \in SeparatorArgs, b \in SeparatorArgs :
          (a # b /\ \A x \in {a[1], a[2], b[1], b[2]} : ~HasColon(x)) =>
              /\ _generate_key(a[1], a[2]) # _generate_key(b[1], b[2])
              /\ \A v \in CacheValues, t \in TtlArgs :
                    Set(a[1], v, a[2], t) =>
                        get(cache', b[1], b[2], clock').found =
                            get(cache, b[1], b[2], clock).found]_vars

-----------------------------------------------------------------------------
(* Properties of the cache: what cleanup_expired changes for the callers *)

\* C31: the results of the cache do not depend on cleanup_expired: for any
\* sequence of set, get and delete calls and clock advances, every get and
\* every delete returns the same result whether or not cleanup_expired calls
\* are inserted into the sequence.
C31_ResultsIndependentOfCleanup ==
    /\ cache_call.op = "get" => cache_call.found = plain.found
    /\ cache_call.op = "delete" => cache_call.deleted = plain.deleted

\* C31, amended: every get returns the same result with and without the
\* inserted cleanup_expired calls, and so does every delete of an entry that
\* has not expired or is not there; a delete of an expired entry returns
\* True without the cleanups and False once a cleanup has swept the entry.
\* The two caches hold the same unexpired entries throughout.
C31_GetIndependentOfCleanup ==
    /\ cache_call.op = "get" => cache_call.found = plain.found
    /\ cache_call.op = "delete" =>
          \/ cache_call.deleted = plain.deleted
          \/ plain.deleted /\ ~cache_call.deleted /\ plain.expired /\ plain.swept
    /\ DOMAIN cache \subseteq DOMAIN plain.cache
    /\ \A k \in DOMAIN cache : cache[k] = plain.cache[k]
    /\ \A k \in DOMAIN plain.cache \ DOMAIN cache : Expired(plain.cache[k], clock)

\* C31 witness: a get of an entry that a cleanup had swept from the first
\* cache and that the second cache still held: both return nothing.
C31_Witness ==
    /\ cache_call.op = "get"
    /\ plain.swept
    /\ cache_call.found = Absent
    /\ plain.found = Absent

\* C31 witness: a delete of an expired entry that a cleanup had swept: False
\* on the first cache, True on the second.
C31_WitnessDelete ==
    /\ cache_call.op = "delete"
    /\ plain.swept
    /\ ~cache_call.deleted
    /\ plain.deleted

-----------------------------------------------------------------------------
(* Properties of the cache: cleanup_expired among concurrent calls *)

\* the completed cleanup_expired calls
Sweeps == {i \in 1..Len(thread_log) : thread_log[i].op = "cleanup_expired"}

\* C32: cleanup_expired run by a background scheduler while requests call
\* get, set and delete on the same cache always completes without error,
\* never removes an entry that is not expired, and returns the number of
\* entries it evicted itself: never a negative number, never counting the
\* entries that the concurrent calls added or removed.
C32_SweepSafeAmongCalls ==
    \A i \in Sweeps :
        /\ ~thread_log[i].raised
        /\ ~thread_log[i].value[1].live
        /\ thread_log[i].value[1].count >= 0
        /\ thread_log[i].value[1].count = thread_log[i].value[1].evicted

\* The parts of C32, one by one: each of them fails.
C32_SweepNeverRaises == \A i \in Sweeps : ~thread_log[i].raised

C32_SweepRemovesOnlyExpired ==
    \A i \in Sweeps : ~thread_log[i].raised => ~thread_log[i].value[1].live

C32_SweepCountsItsOwn ==
    \A i \in Sweeps :
        ~thread_log[i].raised =>
            thread_log[i].value[1].count = thread_log[i].value[1].evicted

====
